---- MODULE Spec2Model ----
(***************************************************************************)
(* Minecraft server-list-ping probe of nonebot_plugin_mccheck.             *)
(*                                                                         *)
(* data_source.py: class MineStat (one object per probe attempt, six       *)
(* probe routines, the constructor that runs one routine or the ALL        *)
(* chain).  utils.py: get_java (the Java fallback chain), get_bedrock,     *)
(* get_mc (Java chain and Bedrock probe of one endpoint),                  *)
(* get_origin_address (the resolver) and get_message_list (one get_mc      *)
(* per resolved target, and the messages built from their results).        *)
(*                                                                         *)
(* A probe routine blocks only in connect, send and recv.  Each action     *)
(* below runs one thread from one such suspension point to the next; the   *)
(* outcome of the socket call (and the bytes received) is the action's     *)
(* input, drawn from the sets of network events defined below.             *)
(***************************************************************************)
EXTENDS Integers, Sequences, FiniteSets, TLC

VARIABLES
    ip_type,    \* get_mc argument: the endpoint's kind, as tokens (<<"SRV-","IPv4">>)
    port,       \* get_mc / MineStat argument: the port, 0 = protocol default
    ms,         \* thread -> the MineStat object the thread is constructing / holds
    pc,         \* thread -> "idle" | "run" | "returned" | "raised"
    attempts,   \* thread -> history of the MineStat constructions it made
    ret,        \* thread -> <<>> or <<the tuple returned by get_java / get_bedrock>>
    pc_mc,      \* get_mc: "start" | "gather" | "returned" | "raised" | "off"
    ret_mc,     \* the list returned by get_mc
    host,       \* get_message_list argument ip: the address the user gave
    ip_port,    \* get_message_list argument port
    message_type, \* configs.message_type, the output mode
    dns,        \* the running get_origin_address calls: depth -> frame
    ip_groups,  \* <<>> or <<the target list get_origin_address returned>>
    results,    \* target index -> <<>> or <<the list its get_mc returned>>
    messages,   \* the list get_message_list returns
    pc_list,    \* get_message_list: "start" | "resolve" | "gather" |
                \* "returned" | "raised" | "off"
    overtaken,  \* a get_mc returned before the get_mc of an earlier target
    varint,     \* one _pack_varint / _unpack_varint round trip
    parse,      \* one parse_host call
    strip,      \* one motd_strip_formatting call, applied again to its result
    render,     \* parse_motd2html calls
    config_language, \* plugin_config.language: the locale configured
    lang,       \* the module global lang: the current locale
    requests,   \* the set_lang / lang_now requests being handled
    recvx,      \* one _recv_exact call of a TCP probe
    reply       \* the messages one get_message_list call is building

mcVars == <<ip_type, port, ms, pc, attempts, ret, pc_mc, ret_mc>>
listVars == <<host, ip_port, message_type, dns, ip_groups, results, messages,
              pc_list, overtaken>>
pureVars == <<varint, parse, strip, render, config_language, lang, requests,
              recvx, reply>>
vars == <<mcVars, listVars, pureVars>>

\* The variables each of the smaller specifications leaves alone.
exceptVarint == <<mcVars, listVars, parse, strip, render, config_language, lang, requests,
                 recvx, reply>>
exceptParse == <<mcVars, listVars, varint, strip, render, config_language, lang, requests,
                 recvx, reply>>
exceptStrip == <<mcVars, listVars, varint, parse, render, config_language, lang, requests,
                 recvx, reply>>
exceptRender == <<mcVars, listVars, varint, parse, strip, config_language, lang, requests,
                 recvx, reply>>
exceptLang == <<mcVars, listVars, varint, parse, strip, render, config_language,
               recvx, reply>>
exceptRecv == <<mcVars, listVars, varint, parse, strip, render, config_language,
               lang, requests, reply>>
exceptReply == <<mcVars, listVars, varint, parse, strip, render, config_language,
                requests, recvx>>

\* The state of these variables when nothing of theirs is running.
Off == [pc |-> "off"]
VarintIdle == varint = Off
ParseIdle == parse = Off
StripIdle == strip = Off
RenderIdle == render = Off
LangIdle == config_language = "" /\ lang = "" /\ requests = <<>>
RecvIdle == recvx = Off
ReplyIdle == reply = Off
PureIdle ==
    /\ VarintIdle /\ ParseIdle /\ StripIdle /\ RenderIdle /\ LangIdle
    /\ RecvIdle /\ ReplyIdle

(***************************************************************************)
(* Values                                                                  *)
(***************************************************************************)
None == "None"

SUCCESS  == "SUCCESS"
CONNFAIL == "CONNFAIL"
TIMEOUT  == "TIMEOUT"
UNKNOWN  == "UNKNOWN"
ConnStatus == {SUCCESS, CONNFAIL, TIMEOUT, UNKNOWN}

ALL             == "ALL"
QUERY           == "QUERY"
BEDROCK_RAKNET  == "BEDROCK_RAKNET"
JSON            == "JSON"
EXTENDED_LEGACY == "EXTENDED_LEGACY"
LEGACY          == "LEGACY"
BETA            == "BETA"
SlpProtocols == {ALL, QUERY, BEDROCK_RAKNET, JSON, EXTENDED_LEGACY, LEGACY, BETA}

DEFAULT_TCP_PORT        == 25565
DEFAULT_BEDROCK_PORT_V4 == 19132
DEFAULT_BEDROCK_PORT_V6 == 19133

\* The ports a caller passes: 0 (use the protocol default) or an explicit one.
Ports == {0, 25577}

\* The kinds get_origin_address produces, as the tokens of the string.
IpTypes == {<<"IPv4">>, <<"IPv6">>, <<"SRV-", "IPv4">>, <<"SRV-", "IPv6">>}

\* str.startswith("SRV") on an ip_type
startswith_SRV(t) == Len(t) > 0 /\ t[1] = "SRV-"
\* "IPv6" in ip_type
contains_IPv6(t) == \E i \in 1..Len(t) : t[i] = "IPv6"

Threads == {"java", "bedrock"}
AllThreads == Threads \cup {"main"}

(***************************************************************************)
(* The MineStat object.  online .. connection_status are the attributes    *)
(* of the class; result is the constructor's local, retval the value the   *)
(* running routine returned, routine / phase / sock the position of the    *)
(* constructor: which probe routine is running, at which socket call it    *)
(* is suspended and the state of the socket that routine created.          *)
(* linked records (for the latency invariant) that a TCP connect of the    *)
(* object completed or that a UDP reply reached it; dialed is the history  *)
(* of the routines the constructor entered, each with the port it dials.   *)
(***************************************************************************)
NoObj ==
    [query_protocol |-> None, use_ipv6 |-> FALSE, autoport |-> FALSE, port |-> 0,
     online |-> FALSE, slp_protocol |-> None, latency |-> None,
     connection_status |-> None, result |-> None, retval |-> None,
     routine |-> None, phase |-> "none", sock |-> "none", linked |-> FALSE,
     dialed |-> <<>>]

\* The first suspension point of each routine: the TCP probes and the
\* Bedrock probe connect first, the Query probe sends right away.
FirstPhase(r) == IF r = QUERY THEN "send" ELSE "connect"

\* A routine is entered: it creates its socket, which it will connect (or
\* send from) to (self.address, self.port).
StartRoutine(self, r) ==
    [self EXCEPT !.routine = r, !.phase = FirstPhase(r), !.sock = "open",
                 !.retval = None,
                 !.dialed = Append(@, [routine |-> r, port |-> self.port])]

\* return <status> from a routine / an exception leaves the routine
Return(self, status) == [self EXCEPT !.phase = "returned", !.retval = status]
Raise(self) == [self EXCEPT !.phase = "raised"]
Close(self) == [self EXCEPT !.sock = "closed"]

(***************************************************************************)
(* Network events: the outcome of one blocking socket call.                *)
(*   io = "ok"       the call returned                                     *)
(*        "timeout"  TimeoutError                                          *)
(*        "aborted"  ConnectionResetError / ConnectionAbortedError (also   *)
(*                   raised by _recv_exact on a read of zero bytes)        *)
(*        "oserror"  any other OSError (refused, unreachable, ...)         *)
(* data describes the bytes a successful recv delivered, by the features   *)
(* the routine's framing checks and its parser look at.                    *)
(***************************************************************************)
NoData == [none |-> TRUE]
Ev(io, data) == [io |-> io, data |-> data]

\* Largest number of delimited fields of a text payload that is enumerated.
MaxFields == 7
\* Length (in UTF-16 code units) of the long replies that are enumerated.
MaxLen == 12

Min(a, b) == IF a < b THEN a ELSE b

\* The texts of n code units, by what the parsers look at: whether the bytes
\* decode, the number of fields the delimiter splits the text into, and
\* whether the fields read with int() are numeric.  k fields need k-1
\* delimiters, and two numeric fields need one digit each.
TextsOfLen(n) ==
    IF n <= 0
    THEN {[decodable |-> TRUE, nfields |-> 1, numeric |-> FALSE]}
    ELSE {[decodable |-> FALSE, nfields |-> 1, numeric |-> FALSE]}
         \cup {t \in [decodable : {TRUE}, nfields : 1..Min(n + 1, MaxFields),
                       numeric : BOOLEAN] :
                   t.numeric => n >= t.nfields + 1}

\* Replies to the Beta / Legacy / Extended Legacy request: a 3-byte header
\* (leading byte, signed 16-bit content length) and content_len * 2 bytes.
\* The lengths enumerated: negative, below the framing minimum of 3, long.
LegacyFrames ==
    UNION {{[lead |-> l, content_len |-> n, text |-> t] : t \in TextsOfLen(n)} :
              l \in {255, 0}, n \in {-1, 2, MaxLen}}

\* Replies to the JSON status request: VarInt packet length, VarInt packet
\* id, and the JSON body by how json.loads and the field accesses fare.
JsonBodies == {"valid", "not_json", "not_utf8", "not_object", "bad_favicon"}
JsonFrames ==
    {[packet_len |-> n, packet_id |-> i, body |-> b] :
        n \in {0, MaxLen}, i \in {0, 25}, b \in JsonBodies}

\* Replies to the RakNet Unconnected Ping: packet id, whether the datagram
\* is long enough for the fixed fields, whether the magic matches, and the
\* semicolon-separated id string.
BedrockFrames ==
    {[packet_id |-> i, truncated |-> tr, magic |-> m, text |-> t] :
        i \in {28, 0}, tr \in BOOLEAN, m \in BOOLEAN, t \in TextsOfLen(MaxLen)}

\* Replies to the Query handshake: the challenge token by how int() and
\* struct.pack(">l") fare, and the outcome of the sendto of the stat request.
QueryChallenges ==
    {[token |-> k, send2 |-> s] :
        k \in {"int32", "not_int", "out_of_range"}, s \in {"ok", "oserror"}}
\* Replies to the full stat request: whether the payload parses.
QueryStats == {[wellformed |-> w] : w \in BOOLEAN}

RecvFailures == {"timeout", "aborted", "oserror"}

ConnectEvents(r) ==
    IF r = BEDROCK_RAKNET
    THEN {Ev(io, NoData) : io \in {"ok", "oserror"}}
    ELSE {Ev(io, NoData) : io \in {"ok", "timeout", "oserror"}}

SendEvents == {Ev(io, NoData) : io \in {"ok", "oserror"}}

Frames(r, phase) ==
    CASE r \in {LEGACY, BETA, EXTENDED_LEGACY} -> LegacyFrames
      [] r = JSON -> JsonFrames
      [] r = BEDROCK_RAKNET -> BedrockFrames
      [] r = QUERY /\ phase = "recv" -> QueryChallenges
      [] r = QUERY /\ phase = "recv2" -> QueryStats

RecvEvents(r, phase) ==
    {Ev(io, NoData) : io \in RecvFailures}
    \cup {Ev("ok", d) : d \in Frames(r, phase)}

\* except TimeoutError / (ConnectionResetError, ConnectionAbortedError) /
\* OSError: the status each handler returns
FailureStatus(io) ==
    CASE io = "timeout" -> TIMEOUT
      [] io = "aborted" -> UNKNOWN
      [] io = "oserror" -> CONNFAIL

(***************************************************************************)
(* The probe routines of MineStat.  Each operator is the routine as a      *)
(* coroutine: given the object suspended at self.phase and the event ev    *)
(* of that socket call, it yields the object at the routine's next         *)
(* suspension point, at its return or with an exception leaving it.        *)
(***************************************************************************)

\* _extracted_from_beta_query_19 under the try of the four TCP probes: the
\* latency is the duration of connect; on failure the probe returns without
\* closing the socket.
tcp_connect(self, ev) ==
    IF ev.io = "ok"
    THEN [self EXCEPT !.latency = "measured", !.phase = "send"]
    ELSE Return(self, IF ev.io = "timeout" THEN TIMEOUT ELSE CONNFAIL)

\* sock.send of a TCP probe stands outside every try: a failure leaves the
\* routine (and the constructor) as an exception.
tcp_send(self, ev) ==
    IF ev.io = "ok" THEN [self EXCEPT !.phase = "recv"] ELSE Raise(self)

\* __parse_legacy_payload: decode, split on NUL, six fields or UNKNOWN, then
\* int() of the three numeric fields, then online.
parse_legacy_payload(self, text) ==
    IF ~text.decodable THEN Raise(self)
    ELSE IF text.nfields # 6 THEN Return(self, UNKNOWN)
    ELSE IF ~text.numeric THEN Raise(self)
    ELSE Return([self EXCEPT !.online = TRUE], SUCCESS)

\* legacy_query
legacy_query(self, ev) ==
    CASE self.phase = "connect" -> tcp_connect(self, ev)
      [] self.phase = "send" -> tcp_send(self, ev)
      [] self.phase = "recv" ->
            IF ev.io # "ok"
            THEN Return(self, FailureStatus(ev.io))
            ELSE parse_legacy_payload(
                     [Close(self) EXCEPT !.slp_protocol = LEGACY], ev.data.text)

\* beta_query: same framing; the payload is split on the section sign, at
\* least three parts or UNKNOWN, the last two read with int().
beta_query(self, ev) ==
    CASE self.phase = "connect" -> tcp_connect(self, ev)
      [] self.phase = "send" -> tcp_send(self, ev)
      [] self.phase = "recv" ->
            IF ev.io # "ok"
            THEN Return(self, FailureStatus(ev.io))
            ELSE LET me == [Close(self) EXCEPT !.slp_protocol = BETA]
                     text == ev.data.text
                 IN  IF ~text.decodable THEN Raise(me)
                     ELSE IF text.nfields < 3 THEN Return(me, UNKNOWN)
                     ELSE IF ~text.numeric THEN Raise(me)
                     ELSE Return([me EXCEPT !.online = TRUE], SUCCESS)

\* extended_legacy_query: the receive is one try with a finally that closes
\* the socket; the leading byte and the content length are checked.
extended_legacy_query(self, ev) ==
    CASE self.phase = "connect" -> tcp_connect(self, ev)
      [] self.phase = "send" -> tcp_send(self, ev)
      [] self.phase = "recv" ->
            IF ev.io # "ok"
            THEN Return(Close(self), FailureStatus(ev.io))
            ELSE IF ev.data.lead # 255 THEN Return(Close(self), UNKNOWN)
            ELSE IF ev.data.content_len < 3 THEN Return(Close(self), UNKNOWN)
            ELSE parse_legacy_payload(
                     [Close(self) EXCEPT !.slp_protocol = EXTENDED_LEGACY],
                     ev.data.text)

\* Faulty variant of parse_json_payload: SUCCESS is returned without online
\* being set.
parse_json_payload_not_online(self, body) ==
    CASE body = "not_json" -> Return(self, UNKNOWN)
      [] body = "valid" -> Return(self, SUCCESS)
      [] OTHER -> Raise(self)

\* __parse_json_payload: only json.JSONDecodeError and a missing favicon key
\* are caught.
parse_json_payload(self, body) ==
    CASE body = "not_json" -> Return(self, UNKNOWN)
      [] body = "valid" -> Return([self EXCEPT !.online = TRUE], SUCCESS)
      [] OTHER -> Raise(self)

\* json_query
json_query(self, ev) ==
    CASE self.phase = "connect" -> tcp_connect(self, ev)
      [] self.phase = "send" -> tcp_send(self, ev)
      [] self.phase = "recv" ->
            IF ev.io # "ok"
            THEN Return(Close(self), FailureStatus(ev.io))
            ELSE IF ev.data.packet_len < 3 THEN Return(Close(self), UNKNOWN)
            ELSE IF ev.data.packet_id # 0 THEN Return(Close(self), UNKNOWN)
            ELSE parse_json_payload(
                     [Close(self) EXCEPT !.slp_protocol = JSON], ev.data.body)

\* The finally of bedrock_raknet_query: close the socket, set the latency.
bedrock_finally(self) == [Close(self) EXCEPT !.latency = "measured"]

\* __parse_bedrock_payload: online is set first; the six leading fields are
\* required (KeyError otherwise) and three of them are read with int().
parse_bedrock_payload(self, text) ==
    LET me == [self EXCEPT !.online = TRUE]
    IN  IF text.nfields < 6 \/ ~text.numeric THEN Raise(me)
        ELSE Return(me, SUCCESS)

\* bedrock_raknet_query: connect, send and recvfrom in one try.
bedrock_raknet_query(self, ev) ==
    CASE self.phase = "connect" ->
            IF ev.io = "ok" THEN [self EXCEPT !.phase = "send"]
            ELSE Return(bedrock_finally(self), FailureStatus(ev.io))
      [] self.phase = "send" ->
            IF ev.io = "ok" THEN [self EXCEPT !.phase = "recv"]
            ELSE Return(bedrock_finally(self), FailureStatus(ev.io))
      [] self.phase = "recv" ->
            IF ev.io # "ok"
            THEN Return(bedrock_finally(self), FailureStatus(ev.io))
            ELSE IF ev.data.packet_id # 28
            THEN Return(bedrock_finally(self), UNKNOWN)
            ELSE IF ev.data.truncated THEN Raise(bedrock_finally(self))
            ELSE IF ~ev.data.magic THEN Return(bedrock_finally(self), UNKNOWN)
            ELSE IF ~ev.data.text.decodable THEN Raise(bedrock_finally(self))
            ELSE parse_bedrock_payload(
                     [bedrock_finally(self) EXCEPT !.slp_protocol = BEDROCK_RAKNET],
                     ev.data.text)

\* __parse_query_payload: every exception of the parse is UNKNOWN.
parse_query_payload(self, stat) ==
    IF ~stat.wellformed THEN Return(self, UNKNOWN)
    ELSE Return([self EXCEPT !.online = TRUE, !.slp_protocol = QUERY], SUCCESS)

\* fullstat_query: the handshake sendto stands outside the try; the two recv
\* and the second sendto are in one try with a finally that closes the
\* socket.  The routine never assigns self.latency.
fullstat_query(self, ev) ==
    CASE self.phase = "send" ->
            IF ev.io = "ok" THEN [self EXCEPT !.phase = "recv"] ELSE Raise(self)
      [] self.phase = "recv" ->
            IF ev.io # "ok"
            THEN Return(Close(self), FailureStatus(ev.io))
            ELSE IF ev.data.token # "int32" THEN Raise(Close(self))
            ELSE IF ev.data.send2 # "ok" THEN Return(Close(self), CONNFAIL)
            ELSE [self EXCEPT !.phase = "recv2"]
      [] self.phase = "recv2" ->
            IF ev.io # "ok"
            THEN Return(Close(self), FailureStatus(ev.io))
            ELSE parse_query_payload(Close(self), ev.data)

\* The routine self.routine, resumed with ev.
Routine(self, ev) ==
    CASE self.routine = LEGACY -> legacy_query(self, ev)
      [] self.routine = BETA -> beta_query(self, ev)
      [] self.routine = EXTENDED_LEGACY -> extended_legacy_query(self, ev)
      [] self.routine = JSON -> json_query(self, ev)
      [] self.routine = BEDROCK_RAKNET -> bedrock_raknet_query(self, ev)
      [] self.routine = QUERY -> fullstat_query(self, ev)

\* Whether ev is a completed TCP connect or a received UDP datagram.
Links(self, ev) ==
    /\ ev.io = "ok"
    /\ \/ self.routine \in {LEGACY, BETA, EXTENDED_LEGACY, JSON} /\ self.phase = "connect"
       \/ self.routine \in {BEDROCK_RAKNET, QUERY} /\ self.phase \in {"recv", "recv2"}

Resume(self, ev) ==
    [Routine(self, ev) EXCEPT !.linked = self.linked \/ Links(self, ev)]

(***************************************************************************)
(* MineStat.__init__                                                       *)
(***************************************************************************)

\* The attribute defaults and the port default of the constructor.
MineStat_fields(p, query_protocol, use_ipv6) ==
    [NoObj EXCEPT
        !.query_protocol = query_protocol,
        !.use_ipv6 = use_ipv6,
        !.autoport = (p = 0),
        !.port = IF p # 0 THEN p
                 ELSE IF query_protocol = BEDROCK_RAKNET
                      THEN IF use_ipv6 THEN DEFAULT_BEDROCK_PORT_V6
                           ELSE DEFAULT_BEDROCK_PORT_V4
                      ELSE DEFAULT_TCP_PORT,
        !.result = UNKNOWN]

\* "if autoport and not self.port: self.port = ..." of the ALL chain
all_bedrock_port(self) ==
    IF self.autoport /\ self.port = 0
    THEN [self EXCEPT !.port = IF self.use_ipv6 THEN DEFAULT_BEDROCK_PORT_V6
                                ELSE DEFAULT_BEDROCK_PORT_V4]
    ELSE self
all_tcp_port(self) ==
    IF self.autoport /\ self.port = 0
    THEN [self EXCEPT !.port = DEFAULT_TCP_PORT]
    ELSE self

\* The constructor up to the first socket call: a single protocol runs its
\* own routine, ALL starts with the Bedrock probe.
MineStat(p, query_protocol, use_ipv6) ==
    LET self == MineStat_fields(p, query_protocol, use_ipv6)
    IN  IF query_protocol # ALL
        THEN StartRoutine(self, query_protocol)
        ELSE StartRoutine(all_bedrock_port(self), BEDROCK_RAKNET)

\* The constructor returns.
Constructed(self) == [self EXCEPT !.phase = "done"]

\* Faulty variant of all_finish: the status of the last probe that assigned
\* result is kept even when a later probe set online.
all_finish_keeps_result(self) ==
    Constructed([self EXCEPT !.connection_status = self.result])

\* The last line of the ALL chain.
all_finish(self) ==
    Constructed([self EXCEPT !.connection_status =
                     IF self.online THEN SUCCESS ELSE self.result])

\* The ALL chain from "if result is not CONNFAIL: self.json_query()".
all_at_json(self) ==
    IF self.result # CONNFAIL THEN StartRoutine(self, JSON) ELSE all_finish(self)

\* The ALL chain from "if result is not CONNFAIL: extended_legacy_query()".
all_at_extended(self) ==
    IF self.result # CONNFAIL THEN StartRoutine(self, EXTENDED_LEGACY)
    ELSE all_at_json(self)

\* The ALL chain from "if result not in [CONNFAIL, SUCCESS]: beta_query()".
all_at_beta(self) ==
    IF self.result \notin {CONNFAIL, SUCCESS} THEN StartRoutine(self, BETA)
    ELSE all_at_extended(self)

\* Faulty variant of single_finish: a failed Legacy probe falls back to
\* the Beta probe.
single_finish_falls_back(self) ==
    IF self.routine = LEGACY /\ self.retval # SUCCESS
    THEN StartRoutine([self EXCEPT !.result = self.retval], BETA)
    ELSE Constructed([self EXCEPT !.result = self.retval,
                                  !.connection_status = self.retval])

\* A single protocol: "self.connection_status = result; return".
single_finish(self) ==
    Constructed([self EXCEPT !.result = self.retval,
                             !.connection_status = self.retval])

\* The constructor from the return of the routine it called (self.retval)
\* to its next socket call or to its own return.
init_resume(self) ==
    IF self.query_protocol # ALL
    THEN single_finish(self)
    ELSE CASE self.routine = BEDROCK_RAKNET ->
                LET me == [self EXCEPT !.result = self.retval,
                                       !.connection_status = self.retval]
                IN  IF me.result = SUCCESS THEN Constructed(me)
                    ELSE StartRoutine(all_tcp_port(me), LEGACY)
           [] self.routine = LEGACY ->
                all_at_beta([self EXCEPT !.result = self.retval])
           [] self.routine = BETA ->
                all_at_extended([self EXCEPT !.result = self.retval])
           [] self.routine = EXTENDED_LEGACY ->
                all_at_json([self EXCEPT !.result = self.retval])
           [] self.routine = JSON ->
                all_finish(self)

(***************************************************************************)
(* utils.py: get_java, get_bedrock, get_mc                                 *)
(***************************************************************************)

\* Faulty variants of the guards: BETA also after a SUCCESS of LEGACY;
\* EXTENDED_LEGACY unless the result is SUCCESS (so also after a CONNFAIL).
java_runs_beta_after_success(result) == result.connection_status # CONNFAIL
java_runs_extended_after_connfail(result) == result.connection_status # SUCCESS
\* Faulty variant: the JSON probe is skipped once QUERY succeeded.
java_runs_json_unless_success(result) ==
    result.connection_status \notin {CONNFAIL, SUCCESS}

\* The guards of the four conditional probes of get_java.
java_runs_beta(result) == result.connection_status \notin {CONNFAIL, SUCCESS}
java_runs_extended(result) == result.connection_status # CONNFAIL
java_runs_query(result) == result.connection_status # CONNFAIL
java_runs_json(result) == result.connection_status # CONNFAIL

\* get_java from each of its "if" lines on: the protocol of the next
\* MineStat it constructs, or "return" when it reaches its last lines.
java_at_json(result) ==
    IF java_runs_json(result) THEN JSON ELSE "return"
java_at_query(result) ==
    IF java_runs_query(result) THEN QUERY ELSE java_at_json(result)
java_at_extended(result) ==
    IF java_runs_extended(result) THEN EXTENDED_LEGACY ELSE java_at_query(result)
java_at_beta(result) ==
    IF java_runs_beta(result) THEN BETA ELSE java_at_extended(result)

\* get_java after the construction of result completed.
get_java_next(result) ==
    CASE result.query_protocol = LEGACY -> java_at_beta(result)
      [] result.query_protocol = BETA -> java_at_extended(result)
      [] result.query_protocol = EXTENDED_LEGACY -> java_at_query(result)
      [] result.query_protocol = QUERY -> java_at_json(result)
      [] result.query_protocol = JSON -> "return"

\* Optional values: None is the empty tuple, a value x is <<x>>.
Some(x) == <<x>>
Nothing == <<>>

\* Faulty variants of the return lines: get_java reports CONNFAIL for every
\* failure; get_bedrock hands out the object whether or not it is online.
get_java_return_connfail(result) ==
    IF result.online THEN <<Some(result), SUCCESS>>
    ELSE <<Nothing, CONNFAIL>>
get_bedrock_return_always(result) ==
    <<Some(result), result.connection_status>>

\* The last three lines of get_java / of get_bedrock.
get_java_return(result) ==
    IF result.online THEN <<Some(result), SUCCESS>>
    ELSE <<Nothing, result.connection_status>>
get_bedrock_return(result) ==
    IF result.online THEN <<Some(result), SUCCESS>>
    ELSE <<Nothing, result.connection_status>>

RUNNING == "RUNNING"
RAISED  == "RAISED"
Attempt(protocol, status) == [protocol |-> protocol, status |-> status]
\* The history with the status of its last (running) attempt filled in.
Finished(h, status) == [h EXCEPT ![Len(h)].status = status]

\* The first probe get_java / get_bedrock constructs.
FirstProtocol(t) == IF t = "java" THEN LEGACY ELSE BEDROCK_RAKNET

\* Faulty variant of Started: the Bedrock probe is started for every kind.
Started_both(kind) == {"java", "bedrock"}

\* The worker threads get_mc starts for a target of this kind.
Started(kind) == IF startswith_SRV(kind) THEN {"java"} ELSE {"java", "bedrock"}

(***************************************************************************)
(* get_message_list at rest.  A frame is one running get_origin_address:   *)
(* its arguments, its data list and the position of its lookup tasks       *)
(* ("off": not started, "lookup": awaiting the answer, "nested": awaiting  *)
(* the nested get_origin_address, "done").                                 *)
(***************************************************************************)
LookupTasks == {"aaaa", "a", "srv"}
NoFrame ==
    [domain |-> "", ip_port |-> 0, refer_domain |-> "", data |-> <<>>,
     task |-> [k \in LookupTasks |-> "off"]]

\* The state of the get_mc variables when no get_mc is running.
McIdle ==
    /\ ip_type = <<"IPv4">>
    /\ port = 0
    /\ ms = [t \in AllThreads |-> NoObj]
    /\ pc = [t \in AllThreads |-> "idle"]
    /\ attempts = [t \in AllThreads |-> <<>>]
    /\ ret = [t \in AllThreads |-> <<>>]
    /\ pc_mc = "off"
    /\ ret_mc = <<>>

\* The state of the get_message_list variables when none is running.
ListIdle ==
    /\ host = ""
    /\ ip_port = 0
    /\ message_type = 0
    /\ dns = [f \in 1..2 |-> NoFrame]
    /\ ip_groups = Nothing
    /\ results = <<>>
    /\ messages = <<>>
    /\ pc_list = "off"
    /\ overtaken = FALSE

(***************************************************************************)
(* Actions                                                                 *)
(***************************************************************************)

\* get_mc is called: it hands get_java (and, unless the kind starts with
\* SRV, get_bedrock) to worker threads; each constructs its first MineStat.
get_mc_call ==
    /\ pc_mc = "start"
    /\ pc_mc' = "gather"
    /\ pc' = [t \in AllThreads |->
                 IF t \in Started(ip_type) THEN "run" ELSE pc[t]]
    /\ ms' = [t \in AllThreads |->
                 IF t \in Started(ip_type)
                 THEN MineStat(port, FirstProtocol(t), contains_IPv6(ip_type))
                 ELSE ms[t]]
    /\ attempts' = [t \in AllThreads |->
                 IF t \in Started(ip_type)
                 THEN <<Attempt(FirstProtocol(t), RUNNING)>>
                 ELSE attempts[t]]
    /\ UNCHANGED <<ip_type, port, ret, ret_mc>>
    /\ UNCHANGED listVars
    /\ UNCHANGED pureVars

\* A connect call of thread t's probe completes.
Connect(t) ==
    /\ pc[t] = "run"
    /\ ms[t].phase = "connect"
    /\ \E ev \in ConnectEvents(ms[t].routine) :
           ms' = [ms EXCEPT ![t] = Resume(ms[t], ev)]
    /\ UNCHANGED <<ip_type, port, pc, attempts, ret, pc_mc, ret_mc>>
    /\ UNCHANGED listVars
    /\ UNCHANGED pureVars

\* A send / sendto call of thread t's probe completes.
Send(t) ==
    /\ pc[t] = "run"
    /\ ms[t].phase = "send"
    /\ \E ev \in SendEvents :
           ms' = [ms EXCEPT ![t] = Resume(ms[t], ev)]
    /\ UNCHANGED <<ip_type, port, pc, attempts, ret, pc_mc, ret_mc>>
    /\ UNCHANGED listVars
    /\ UNCHANGED pureVars

\* The receive of thread t's probe completes: a reply, or a failure.
Recv(t) ==
    /\ pc[t] = "run"
    /\ ms[t].phase \in {"recv", "recv2"}
    /\ \E ev \in RecvEvents(ms[t].routine, ms[t].phase) :
           ms' = [ms EXCEPT ![t] = Resume(ms[t], ev)]
    /\ UNCHANGED <<ip_type, port, pc, attempts, ret, pc_mc, ret_mc>>
    /\ UNCHANGED listVars
    /\ UNCHANGED pureVars

\* A probe routine returned: the constructor goes on to its next routine
\* or returns.
Construct(t) ==
    /\ pc[t] = "run"
    /\ ms[t].phase = "returned"
    /\ ms' = [ms EXCEPT ![t] = init_resume(ms[t])]
    /\ UNCHANGED <<ip_type, port, pc, attempts, ret, pc_mc, ret_mc>>
    /\ UNCHANGED listVars
    /\ UNCHANGED pureVars

\* A MineStat construction of get_java ended: the chain constructs its next
\* probe, or get_java returns, or the exception leaves get_java.
get_java_step ==
    /\ pc["java"] = "run"
    /\ ms["java"].phase \in {"done", "raised"}
    /\ IF ms["java"].phase = "raised"
       THEN /\ pc' = [pc EXCEPT !["java"] = "raised"]
            /\ attempts' = [attempts EXCEPT
                               !["java"] = Finished(attempts["java"], RAISED)]
            /\ UNCHANGED <<ms, ret>>
       ELSE LET result == ms["java"]
                next == get_java_next(result)
                done == Finished(attempts["java"], result.connection_status)
            IN  IF next = "return"
                THEN /\ pc' = [pc EXCEPT !["java"] = "returned"]
                     /\ ret' = [ret EXCEPT !["java"] = Some(get_java_return(result))]
                     /\ attempts' = [attempts EXCEPT !["java"] = done]
                     /\ UNCHANGED ms
                ELSE /\ ms' = [ms EXCEPT !["java"] =
                                  MineStat(port, next, contains_IPv6(ip_type))]
                     /\ attempts' = [attempts EXCEPT !["java"] =
                                        Append(done, Attempt(next, RUNNING))]
                     /\ UNCHANGED <<pc, ret>>
    /\ UNCHANGED <<ip_type, port, pc_mc, ret_mc>>
    /\ UNCHANGED listVars
    /\ UNCHANGED pureVars

\* The MineStat construction of get_bedrock ended.
get_bedrock_step ==
    /\ pc["bedrock"] = "run"
    /\ ms["bedrock"].phase \in {"done", "raised"}
    /\ IF ms["bedrock"].phase = "raised"
       THEN /\ pc' = [pc EXCEPT !["bedrock"] = "raised"]
            /\ attempts' = [attempts EXCEPT
                               !["bedrock"] = Finished(attempts["bedrock"], RAISED)]
            /\ UNCHANGED ret
       ELSE /\ pc' = [pc EXCEPT !["bedrock"] = "returned"]
            /\ ret' = [ret EXCEPT
                          !["bedrock"] = Some(get_bedrock_return(ms["bedrock"]))]
            /\ attempts' = [attempts EXCEPT !["bedrock"] =
                               Finished(attempts["bedrock"],
                                        ms["bedrock"].connection_status)]
    /\ UNCHANGED <<ip_type, port, ms, pc_mc, ret_mc>>
    /\ UNCHANGED listVars
    /\ UNCHANGED pureVars

\* The list get_mc returns: [java] for an SRV kind, [java, bedrock] otherwise.
get_mc_result(kind, r) ==
    IF startswith_SRV(kind) THEN <<r["java"][1]>>
    ELSE <<r["java"][1], r["bedrock"][1]>>

\* Every awaited thread returned: get_mc returns the list of their results.
get_mc_return ==
    /\ pc_mc = "gather"
    /\ \A t \in Started(ip_type) : pc[t] = "returned"
    /\ pc_mc' = "returned"
    /\ ret_mc' = get_mc_result(ip_type, ret)
    /\ UNCHANGED <<ip_type, port, ms, pc, attempts, ret>>
    /\ UNCHANGED listVars
    /\ UNCHANGED pureVars

\* An awaited thread raised: the exception leaves get_mc (the other thread
\* runs on, its result is dropped).
get_mc_raise ==
    /\ pc_mc = "gather"
    /\ \E t \in Started(ip_type) : pc[t] = "raised"
    /\ pc_mc' = "raised"
    /\ UNCHANGED <<ip_type, port, ms, pc, attempts, ret, ret_mc>>
    /\ UNCHANGED listVars
    /\ UNCHANGED pureVars

(***************************************************************************)
(* Spec: one call get_mc(ip, port, ip_type, refer) for any target.         *)
(***************************************************************************)
Init ==
    /\ ip_type \in IpTypes
    /\ port \in Ports
    /\ ms = [t \in AllThreads |-> NoObj]
    /\ pc = [t \in AllThreads |-> "idle"]
    /\ attempts = [t \in AllThreads |-> <<>>]
    /\ ret = [t \in AllThreads |-> Nothing]
    /\ pc_mc = "start"
    /\ ret_mc = <<>>
    /\ ListIdle
    /\ PureIdle

Next ==
    \/ get_mc_call
    \/ \E t \in Threads : Connect(t)
    \/ \E t \in Threads : Send(t)
    \/ \E t \in Threads : Recv(t)
    \/ \E t \in Threads : Construct(t)
    \/ get_java_step
    \/ get_bedrock_step
    \/ get_mc_return
    \/ get_mc_raise

Spec == Init /\ [][Next]_vars

(***************************************************************************)
(* SpecMineStat: one construction MineStat(address, port, timeout,         *)
(* query_protocol, refer, use_ipv6) for any protocol, ALL included.        *)
(***************************************************************************)
InitMineStat ==
    /\ ip_type \in {<<"IPv4">>, <<"IPv6">>}
    /\ port \in Ports
    /\ \E qp \in SlpProtocols :
          ms = [t \in AllThreads |->
                   IF t = "main" THEN MineStat(port, qp, contains_IPv6(ip_type))
                   ELSE NoObj]
    /\ pc = [t \in AllThreads |-> IF t = "main" THEN "run" ELSE "idle"]
    /\ attempts = [t \in AllThreads |-> <<>>]
    /\ ret = [t \in AllThreads |-> Nothing]
    /\ pc_mc = "off"
    /\ ret_mc = <<>>
    /\ ListIdle
    /\ PureIdle

NextMineStat ==
    \/ Connect("main")
    \/ Send("main")
    \/ Recv("main")
    \/ Construct("main")

SpecMineStat == InitMineStat /\ [][NextMineStat]_vars

(***************************************************************************)
(* get_message_list: resolution of the address (get_origin_address), one   *)
(* get_mc per target run concurrently, and the list of messages.           *)
(*                                                                         *)
(* A DNS lookup is a suspension point: each resolver action runs one       *)
(* lookup task from the completion of its query to its end, the answer     *)
(* being the action's input.  A target is the tuple (ip, port, type,       *)
(* refer) of the code; its type is kept as the tokens of the string.       *)
(***************************************************************************)
Addr4 == {"192.0.2.1"}
Addr6 == {"2001:db8::1"}
Domains == {"mc.example.com", "play.example.net"}
\* The addresses a user gives: a literal of each family, a domain, and a
\* text that is none of them.
Hosts == {"192.0.2.1", "2001:db8::1", "mc.example.com", "bad_host"}
MessageTypes == {0, 1, 2}

\* get_ip_type: "Unknown" unless the address is a domain or an IP literal.
get_ip_type(address) ==
    IF ~(address \in Domains \/ address \in Addr4 \/ address \in Addr6)
    THEN "Unknown"
    ELSE IF address \in Addr4 THEN "IPv4"
    ELSE IF address \in Addr6 THEN "IPv6"
    ELSE "Domain"

\* idna.encode(domain).decode("utf-8"), the domain itself on IDNAError: the
\* sample hosts are ASCII, the one IDNA rejects is kept as it is.
refer_of(domain) == domain

\* The first record of the answer to a query, <<>> when the lookup raised
\* NoAnswer / NXDOMAIN / Timeout / NoNameservers.
AAnswers == {Nothing} \cup {Some(a) : a \in Addr4}
AaaaAnswers == {Nothing} \cup {Some(a) : a \in Addr6}
SrvAnswers ==
    {Nothing} \cup
    {Some([target |-> t, port |-> p]) :
        t \in {"play.example.net", "192.0.2.1", "bad_host"},
        p \in {DEFAULT_TCP_PORT, 25577}}

\* A running get_origin_address(domain, ip_port, is_resolve_srv).
Frame(domain, port_, is_resolve_srv) ==
    [domain |-> domain, ip_port |-> port_, refer_domain |-> refer_of(domain),
     data |-> <<>>,
     task |-> [k \in LookupTasks |->
                  IF k = "srv" /\ ~is_resolve_srv THEN "off" ELSE "lookup"]]
\* asyncio.gather over the lookup tasks of a frame completed.
Gathered(frame) == \A k \in LookupTasks : frame.task[k] \in {"off", "done"}

\* type.replace("SRV-", "")
replace_SRV(type) == SelectSeq(type, LAMBDA x : x # "SRV-")

\* Faulty variant of srv_append: the SRV target is always appended.
srv_append_always(data, srv_data) == Append(data, srv_data)

\* "if not any(entry[0] == srv_data[0] and entry[1] == srv_data[1] and
\* entry[2].replace(...) == srv_data[2].replace(...)): data.append(srv_data)"
srv_append(data, srv_data) ==
    IF \E i \in 1..Len(data) :
          /\ data[i][1] = srv_data[1]
          /\ data[i][2] = srv_data[2]
          /\ replace_SRV(data[i][3]) = replace_SRV(srv_data[3])
    THEN data
    ELSE Append(data, srv_data)

\* "if ip_type != 'Domain': return [(domain, ip_port, ip_type, refer_domain)]"
not_domain_targets(domain, port_) ==
    << <<domain, port_, <<get_ip_type(domain)>>, refer_of(domain)>> >>

\* The record get_java / get_bedrock returns from target number i: the
\* MineStat fields build_result prints (target and probe tell the records
\* of one request apart).
StatusRecord(i, target, probe) ==
    [target |-> i, probe |-> probe, address |-> target[1],
     port |-> MineStat_fields(target[2],
                              IF probe = "java" THEN JSON ELSE BEDROCK_RAKNET,
                              contains_IPv6(target[3])).port]
NoRecord == [target |-> 0, probe |-> "", address |-> "", port |-> 0]

\* What get_java / get_bedrock return for a target: (record, SUCCESS) or
\* (None, status of the last probe).
ProbeReturns(i, target, probe) ==
    {<<Some(StatusRecord(i, target, probe)), SUCCESS>>}
    \cup {<<Nothing, s>> : s \in ConnStatus \ {SUCCESS}}

\* What get_mc returns for target number i: [java] for an SRV kind,
\* [java, bedrock] otherwise.
get_mc_returns(i, target) ==
    IF startswith_SRV(target[3])
    THEN {<<j>> : j \in ProbeReturns(i, target, "java")}
    ELSE {<<j, b>> : j \in ProbeReturns(i, target, "java"),
                     b \in ProbeReturns(i, target, "bedrock")}

\* A message of the returned list: an Image, a list of Text, None, or the
\* Text of a status.
Message(kind, record, status) ==
    [kind |-> kind, record |-> record, status |-> status]

\* build_result(ms, address, type): an Image for type 0, a list of Text for
\* type 1; for any other type the function ends without a return.
build_result(record, address, type) ==
    IF type = 0 THEN Message("Image", record, None)
    ELSE IF type = 1 THEN Message("Texts", record, None)
    ELSE Message("None", NoRecord, None)

\* "for ms in results for item in ms": the items in that order.
RECURSIVE Items(_)
Items(rs) == IF rs = <<>> THEN <<>> ELSE Head(rs) \o Items(Tail(rs))

\* Faulty variant of status_of: the first status, CONNFAIL or not.
status_of_first(items) ==
    IF items = <<>> THEN CONNFAIL ELSE items[1][2]

\* "next((item[1] for ... if item[1] != CONNFAIL), CONNFAIL)"
status_of(items) ==
    IF \E k \in 1..Len(items) : items[k][2] # CONNFAIL
    THEN items[CHOOSE k \in 1..Len(items) :
                  /\ items[k][2] # CONNFAIL
                  /\ \A n \in 1..(k - 1) : items[n][2] = CONNFAIL][2]
    ELSE CONNFAIL

\* Faulty variant of record_messages: one record per target, the first.
record_messages_one_per_target(items, address, type) ==
    LET all == SelectSeq(items, LAMBDA item : item[1] # Nothing)
        found == SelectSeq(all, LAMBDA item :
                     item[1][1].probe = "java"
                     \/ \A k \in 1..Len(all) :
                            all[k][1][1].target = item[1][1].target
                            => all[k][1][1].probe = "bedrock")
    IN  [k \in 1..Len(found) |-> build_result(found[k][1][1], address, type)]

\* Faulty variant of record_messages: the items in reverse order.
record_messages_reversed(items, address, type) ==
    LET found == SelectSeq(items, LAMBDA item : item[1] # Nothing)
    IN  [k \in 1..Len(found) |->
            build_result(found[Len(found) + 1 - k][1][1], address, type)]

\* "if i[0] is not None: messages.append(await build_result(i[0], ip, ...))"
record_messages(items, address, type) ==
    LET found == SelectSeq(items, LAMBDA item : item[1] # Nothing)
    IN  [k \in 1..Len(found) |-> build_result(found[k][1][1], address, type)]

\* Faulty variant of message_list: no status is reported when no record
\* was found.
message_list_no_fallback(rs, address, type) ==
    record_messages(Items(rs), address, type)

\* The list get_message_list returns for the gathered results.
message_list(rs, address, type) ==
    LET items == Items(rs)
        found == record_messages(items, address, type)
    IN  IF found = <<>>
        THEN <<Message("Text", NoRecord, status_of(items))>>
        ELSE found

\* get_message_list is called and calls get_origin_address, which returns
\* at once for anything but a domain and starts its lookup tasks otherwise.
get_message_list_call ==
    /\ pc_list = "start"
    /\ IF get_ip_type(host) # "Domain"
       THEN LET data == not_domain_targets(host, ip_port)
            IN  /\ ip_groups' = Some(data)
                /\ results' = [i \in 1..Len(data) |-> Nothing]
                /\ pc_list' = "gather"
                /\ UNCHANGED dns
       ELSE /\ dns' = [dns EXCEPT ![1] = Frame(host, ip_port, TRUE)]
            /\ pc_list' = "resolve"
            /\ UNCHANGED <<ip_groups, results>>
    /\ UNCHANGED <<host, ip_port, message_type, messages, overtaken>>
    /\ UNCHANGED mcVars
    /\ UNCHANGED pureVars

\* The AAAA lookup of frame f completed.
resolve_aaaa(f) ==
    /\ dns[f].task["aaaa"] = "lookup"
    /\ \E ans \in AaaaAnswers :
          dns' = [dns EXCEPT
                     ![f].task["aaaa"] = "done",
                     ![f].data = IF ans = Nothing THEN @
                                 ELSE Append(@, <<ans[1], dns[f].ip_port,
                                                  <<"IPv6">>,
                                                  dns[f].refer_domain>>)]
    /\ UNCHANGED <<host, ip_port, message_type, ip_groups, results, messages,
                   pc_list, overtaken>>
    /\ UNCHANGED mcVars
    /\ UNCHANGED pureVars

\* The A lookup of frame f completed.
resolve_a(f) ==
    /\ dns[f].task["a"] = "lookup"
    /\ \E ans \in AAnswers :
          dns' = [dns EXCEPT
                     ![f].task["a"] = "done",
                     ![f].data = IF ans = Nothing THEN @
                                 ELSE Append(@, <<ans[1], dns[f].ip_port,
                                                  <<"IPv4">>,
                                                  dns[f].refer_domain>>)]
    /\ UNCHANGED <<host, ip_port, message_type, ip_groups, results, messages,
                   pc_list, overtaken>>
    /\ UNCHANGED mcVars
    /\ UNCHANGED pureVars

\* The SRV lookup of frame f completed: no answer, a target that is not a
\* domain (appended unless a duplicate), or a domain, for which a nested
\* get_origin_address(srv_address, srv_port, False) is started.
resolve_srv(f) ==
    /\ dns[f].task["srv"] = "lookup"
    /\ \E ans \in SrvAnswers :
          IF ans = Nothing
          THEN dns' = [dns EXCEPT ![f].task["srv"] = "done"]
          ELSE LET srv_address == ans[1].target
                   srv_port == ans[1].port
                   type == get_ip_type(srv_address)
               IN  IF type = "Domain"
                   THEN dns' = [dns EXCEPT
                                   ![f].task["srv"] = "nested",
                                   ![f + 1] = Frame(srv_address, srv_port,
                                                    FALSE)]
                   ELSE dns' = [dns EXCEPT
                                   ![f].task["srv"] = "done",
                                   ![f].data =
                                       srv_append(@, <<srv_address, srv_port,
                                                       <<"SRV-", type>>,
                                                       refer_of(srv_address)>>)]
    /\ UNCHANGED <<host, ip_port, message_type, ip_groups, results, messages,
                   pc_list, overtaken>>
    /\ UNCHANGED mcVars
    /\ UNCHANGED pureVars

\* The nested get_origin_address of frame f's SRV task returned: its first
\* target, tagged SRV-, is appended unless a duplicate; an empty list ends
\* the task (IndexError is suppressed).
resolve_srv_resume(f) ==
    /\ dns[f].task["srv"] = "nested"
    /\ Gathered(dns[f + 1])
    /\ LET srv_address_ == dns[f + 1].data
       IN  dns' = [dns EXCEPT
                      ![f].task["srv"] = "done",
                      ![f].data =
                          IF srv_address_ = <<>> THEN @
                          ELSE srv_append(@, <<srv_address_[1][1],
                                               srv_address_[1][2],
                                               <<"SRV-">> \o srv_address_[1][3],
                                               srv_address_[1][4]>>),
                      ![f + 1] = NoFrame]
    /\ UNCHANGED <<host, ip_port, message_type, ip_groups, results, messages,
                   pc_list, overtaken>>
    /\ UNCHANGED mcVars
    /\ UNCHANGED pureVars

\* get_origin_address returned its data list to get_message_list, which
\* starts one get_mc per target.
get_origin_address_return ==
    /\ pc_list = "resolve"
    /\ Gathered(dns[1])
    /\ ip_groups' = Some(dns[1].data)
    /\ results' = [i \in 1..Len(dns[1].data) |-> Nothing]
    /\ dns' = [dns EXCEPT ![1] = NoFrame]
    /\ pc_list' = "gather"
    /\ UNCHANGED <<host, ip_port, message_type, messages, overtaken>>
    /\ UNCHANGED mcVars
    /\ UNCHANGED pureVars

\* The get_mc of target number i returned.
gather_get_mc_return(i) ==
    /\ pc_list = "gather"
    /\ results[i] = Nothing
    /\ \E r \in get_mc_returns(i, ip_groups[1][i]) :
          results' = [results EXCEPT ![i] = Some(r)]
    /\ overtaken' = (overtaken \/ \E n \in 1..(i - 1) : results[n] = Nothing)
    /\ UNCHANGED <<host, ip_port, message_type, dns, ip_groups, messages,
                   pc_list>>
    /\ UNCHANGED mcVars
    /\ UNCHANGED pureVars

\* The get_mc of target number i raised (a probe let an exception out):
\* the gather, and with it get_message_list, raises.
gather_get_mc_raise(i) ==
    /\ pc_list = "gather"
    /\ results[i] = Nothing
    /\ pc_list' = "raised"
    /\ UNCHANGED <<host, ip_port, message_type, dns, ip_groups, results,
                   messages, overtaken>>
    /\ UNCHANGED mcVars
    /\ UNCHANGED pureVars

\* Every get_mc returned: get_message_list builds and returns its messages.
get_message_list_return ==
    /\ pc_list = "gather"
    /\ \A i \in 1..Len(results) : results[i] # Nothing
    /\ messages' = message_list([i \in 1..Len(results) |-> results[i][1]],
                                host, message_type)
    /\ pc_list' = "returned"
    /\ UNCHANGED <<host, ip_port, message_type, dns, ip_groups, results,
                   overtaken>>
    /\ UNCHANGED mcVars
    /\ UNCHANGED pureVars

(***************************************************************************)
(* SpecList: one call get_message_list(ip, port) for any address.          *)
(***************************************************************************)
InitList ==
    /\ host \in Hosts
    /\ ip_port \in Ports
    /\ message_type \in MessageTypes
    /\ dns = [f \in 1..2 |-> NoFrame]
    /\ ip_groups = Nothing
    /\ results = <<>>
    /\ messages = <<>>
    /\ pc_list = "start"
    /\ overtaken = FALSE
    /\ ip_type = <<"IPv4">>
    /\ port = 0
    /\ ms = [t \in AllThreads |-> NoObj]
    /\ pc = [t \in AllThreads |-> "idle"]
    /\ attempts = [t \in AllThreads |-> <<>>]
    /\ ret = [t \in AllThreads |-> Nothing]
    /\ pc_mc = "off"
    /\ ret_mc = <<>>
    /\ PureIdle

NextList ==
    \/ get_message_list_call
    \/ \E f \in 1..2 : resolve_aaaa(f)
    \/ \E f \in 1..2 : resolve_a(f)
    \/ \E f \in 1..2 : resolve_srv(f)
    \/ \E f \in 1..2 : resolve_srv_resume(f)
    \/ get_origin_address_return
    \/ \E i \in 1..Len(results) : gather_get_mc_return(i)
    \/ \E i \in 1..Len(results) : gather_get_mc_raise(i)
    \/ get_message_list_return

SpecList == InitList /\ [][NextList]_vars

(***************************************************************************)
(* VarInt: MineStat._pack_varint and MineStat._unpack_varint.              *)
(* Bytes are the integers 0..255; the socket _unpack_varint reads from is  *)
(* the sequence of the bytes not yet received.                             *)
(***************************************************************************)
RECURSIVE BitAnd(_, _)
\* a & b
BitAnd(a, b) ==
    IF a = 0 \/ b = 0 THEN 0
    ELSE (a % 2) * (b % 2) + 2 * BitAnd(a \div 2, b \div 2)
RECURSIVE BitOr(_, _)
\* a | b
BitOr(a, b) ==
    IF a = 0 THEN b
    ELSE IF b = 0 THEN a
    ELSE (IF a % 2 = 1 \/ b % 2 = 1 THEN 1 ELSE 0)
         + 2 * BitOr(a \div 2, b \div 2)
\* a << n, a >> n
ShiftLeft(a, n) == a * 2^n
ShiftRight(a, n) == a \div 2^n

RECURSIVE pack_loop(_, _)
\* The while loop of _pack_varint, from the bytes emitted so far.
pack_loop(data, ordinal) ==
    LET byte == BitAnd(data, 127)
        rest == ShiftRight(data, 7)
        out  == Append(ordinal, BitOr(byte, IF rest > 0 THEN 128 ELSE 0))
    IN  IF rest = 0 THEN out ELSE pack_loop(rest, out)

pack_varint(data) == pack_loop(data, <<>>)

RECURSIVE unpack_loop_four(_, _, _)
\* Faulty variant of unpack_loop: at most four bytes are read.
unpack_loop_four(sock, i, data) ==
    IF i >= 4 \/ sock = <<>>
    THEN [data |-> data, sock |-> sock]
    ELSE LET byte == Head(sock)
             next == BitOr(data, ShiftLeft(BitAnd(byte, 127), 7 * i))
         IN  IF BitAnd(byte, 128) = 0
             THEN [data |-> next, sock |-> Tail(sock)]
             ELSE unpack_loop_four(Tail(sock), i + 1, next)

RECURSIVE unpack_loop(_, _, _)
\* The for loop of _unpack_varint from iteration i: the value read and
\* what is left on the socket.  recv(1) on an exhausted socket is empty.
unpack_loop(sock, i, data) ==
    IF i >= 5 \/ sock = <<>>
    THEN [data |-> data, sock |-> sock]
    ELSE LET byte == Head(sock)
             next == BitOr(data, ShiftLeft(BitAnd(byte, 127), 7 * i))
         IN  IF BitAnd(byte, 128) = 0
             THEN [data |-> next, sock |-> Tail(sock)]
             ELSE unpack_loop(Tail(sock), i + 1, next)

unpack_varint(sock) == unpack_loop(sock, 0, 0)

\* The integers packed: around every power of 128 below 2^31, some with
\* all groups set, and the largest.
VarIntInputs ==
    {0, 2147483647}
    \cup {128^k + d : k \in 0..4, d \in {-1, 0, 1}}
    \cup {c * 128^k + (128^k - 1) : k \in 0..3, c \in {1, 5, 127}}
    \cup {c * 128^4 + (128^4 - 1) : c \in {1, 5}}
\* What follows a VarInt on the socket.
VarIntTrailers == {<<>>, <<0>>, <<255, 1>>}

\* _pack_varint(u) is called.
varint_pack ==
    /\ varint.pc = "start"
    /\ varint' = [varint EXCEPT !.pc = "packed",
                                !.ordinal = pack_varint(varint.u)]
    /\ UNCHANGED exceptVarint

\* The peer sends the packed bytes, followed by the trailer.
varint_send ==
    /\ varint.pc = "packed"
    /\ varint' = [varint EXCEPT !.pc = "sent",
                                !.sock = varint.ordinal \o varint.trailer]
    /\ UNCHANGED exceptVarint

\* _unpack_varint(sock) is called.
varint_unpack ==
    /\ varint.pc = "sent"
    /\ LET r == unpack_varint(varint.sock)
       IN  varint' = [varint EXCEPT !.pc = "unpacked",
                                    !.value = r.data, !.sock = r.sock]
    /\ UNCHANGED exceptVarint

(***************************************************************************)
(* SpecVarInt: one integer packed, sent and unpacked.                      *)
(***************************************************************************)
InitVarInt ==
    /\ \E u \in VarIntInputs, t \in VarIntTrailers :
          varint = [pc |-> "start", u |-> u, trailer |-> t, ordinal |-> <<>>,
                    sock |-> <<>>, value |-> 0]
    /\ McIdle /\ ListIdle
    /\ RecvIdle /\ ReplyIdle
    /\ ParseIdle /\ StripIdle /\ RenderIdle /\ LangIdle

NextVarInt ==
    \/ varint_pack
    \/ varint_send
    \/ varint_unpack

SpecVarInt == InitVarInt /\ [][NextVarInt]_vars

(***************************************************************************)
(* parse_host.  A string is the sequence of its characters.  The pattern   *)
(*   (?:\[(.+?)\]|(.+?))(?:[:<U+FF1A>](\d+))?$                             *)
(* is matched as re.match does: at the start of the string, the bracketed  *)
(* alternative first, each lazy group as short as the rest of the pattern  *)
(* allows.  (The sample characters hold no newline, which "." and "$"      *)
(* treat specially.)                                                       *)
(***************************************************************************)
DigitChars == {"0", "1", "2", "5", "8"}
DigitValue(ch) ==
    CASE ch = "0" -> 0 [] ch = "1" -> 1 [] ch = "2" -> 2
      [] ch = "5" -> 5 [] ch = "8" -> 8

RECURSIVE int(_)
\* int(s) for a string of decimal digits
int(s) ==
    IF Len(s) = 1 THEN DigitValue(s[1])
    ELSE 10 * int(SubSeq(s, 1, Len(s) - 1)) + DigitValue(s[Len(s)])

\* Faulty variant of PortSeparators: the fullwidth colon is not accepted.
PortSeparators_ascii == {":"}

\* [:<U+FF1A>]: the colon and the fullwidth colon
PortSeparators == {":", "U+FF1A"}

\* (?:[:<U+FF1A>](\d+))?$ matches the string from position k on.
TailMatches(s, k) ==
    \/ k = Len(s) + 1
    \/ /\ k < Len(s)
       /\ s[k] \in PortSeparators
       /\ \A n \in (k + 1)..Len(s) : s[n] \in DigitChars

\* match[3] when the address part ends before position k.
PortGroup(s, k) == IF k > Len(s) THEN <<>> ELSE SubSeq(s, k + 1, Len(s))

\* The positions j of a "]" that can close \[(.+?)\], and the lengths k
\* of a plain (.+?), for which the rest of the pattern matches.
BracketEnds(s) ==
    IF s # <<>> /\ s[1] = "["
    THEN {j \in 3..Len(s) : s[j] = "]" /\ TailMatches(s, j + 1)}
    ELSE {}
PlainEnds(s) == {k \in 1..Len(s) : TailMatches(s, k + 1)}
Least(S) == CHOOSE x \in S : \A y \in S : x <= y

\* parse_host(host_name): the pair (address, port).
parse_host(host_name) ==
    IF BracketEnds(host_name) # {}
    THEN LET j == Least(BracketEnds(host_name))
             port3 == PortGroup(host_name, j + 1)
         IN  [address |-> SubSeq(host_name, 2, j - 1),
              port |-> IF port3 # <<>> THEN int(port3) ELSE 0]
    ELSE IF PlainEnds(host_name) # {}
    THEN LET k == Least(PlainEnds(host_name))
             port3 == PortGroup(host_name, k + 1)
         IN  [address |-> SubSeq(host_name, 1, k),
              port |-> IF port3 # <<>> THEN int(port3) ELSE 0]
    ELSE [address |-> host_name, port |-> 0]

\* The hosts, separators and port strings a user's text is made of.
HostChars == {"a", "1", ":", "[", "]"}
HostTexts == UNION {[1..n -> HostChars] : n \in 0..3}
SeparatorTexts == {<<":">>, <<"U+FF1A">>, <<>>}
PortTexts == {<<>>, <<"1">>, <<"2", "5">>, <<"0", "8">>}

\* parse_host is called with the text the user gave.
parse_host_call ==
    /\ parse.pc = "start"
    /\ parse' = [parse EXCEPT !.pc = "done",
                              !.result = parse_host(parse.host_name)]
    /\ UNCHANGED exceptParse

(***************************************************************************)
(* SpecParseHost: one call of parse_host on host + sep + port, the host    *)
(* in brackets or not.                                                     *)
(***************************************************************************)
InitParseHost ==
    /\ \E h \in HostTexts, sep \in SeparatorTexts, p \in PortTexts,
          bracketed \in BOOLEAN :
          parse = [pc |-> "start", host |-> h, sep |-> sep, port |-> p,
                   bracketed |-> bracketed,
                   host_name |-> (IF bracketed THEN <<"[">> \o h \o <<"]">>
                                  ELSE h) \o sep \o p,
                   result |-> [address |-> <<>>, port |-> 0]]
    /\ McIdle /\ ListIdle
    /\ RecvIdle /\ ReplyIdle
    /\ VarintIdle /\ StripIdle /\ RenderIdle /\ LangIdle

NextParseHost == parse_host_call

SpecParseHost == InitParseHost /\ [][NextParseHost]_vars

(***************************************************************************)
(* MOTD values.  A MOTD is a Python str, dict or list; a node is           *)
(*   kind = "str":  text = the characters of the string                    *)
(*   kind = "dict": text = the value of "text" ("" when absent), extra =   *)
(*                  the value of "extra" (empty when absent)               *)
(*   kind = "list": extra = the items                                      *)
(* SECT is the section sign (U+00A7) that starts a formatting code, NL a   *)
(* newline.                                                                *)
(***************************************************************************)
SECT == "U+00A7"
NL == "\n"
Str(text) == [kind |-> "str", text |-> text, extra |-> <<>>]
Dict(text, extra) == [kind |-> "dict", text |-> text, extra |-> extra]
List(items) == [kind |-> "list", text |-> <<>>, extra |-> items]

RECURSIVE Concat(_)
\* "".join(parts)
Concat(parts) ==
    IF parts = <<>> THEN <<>> ELSE Head(parts) \o Concat(Tail(parts))

(***************************************************************************)
(* MineStat.motd_strip_formatting                                          *)
(***************************************************************************)
RECURSIVE re_sub_codes(_)
\* re.sub(r"<SECT>.", "", s): "." matches any character but a newline.
re_sub_codes(s) ==
    IF s = <<>> THEN <<>>
    ELSE IF s[1] = SECT /\ Len(s) >= 2 /\ s[2] # NL
    THEN re_sub_codes(SubSeq(s, 3, Len(s)))
    ELSE <<s[1]>> \o re_sub_codes(Tail(s))

RECURSIVE motd_strip_formatting(_)
motd_strip_formatting(raw_motd) ==
    IF raw_motd.kind = "str" THEN re_sub_codes(raw_motd.text)
    ELSE IF raw_motd.kind = "dict"
    THEN raw_motd.text
         \o Concat([k \in 1..Len(raw_motd.extra) |->
                       motd_strip_formatting(raw_motd.extra[k])])
    ELSE <<>>

\* The MOTDs stripped: strings of up to three characters, and component
\* trees of up to three levels whose nodes are objects or strings.
MotdChars == {"a", SECT, NL}
MotdStrings == UNION {[1..n -> MotdChars] : n \in 0..3}
NodeTexts == {<<>>, <<"a">>, <<SECT, "a">>, <<"a", NL>>}
Leaves == {Str(t) : t \in NodeTexts} \cup {Dict(t, <<>>) : t \in NodeTexts}
LeafLists == UNION {[1..n -> Leaves] : n \in 1..2}
Branches == {Dict(t, x) : t \in NodeTexts, x \in LeafLists}
Components ==
    {Dict(t, <<>>) : t \in NodeTexts}
    \cup Branches
    \cup {Dict(t, <<b>>) : t \in {<<>>, <<"a">>}, b \in Branches}
    \cup {List(x) : x \in LeafLists}
    \cup {List(<<b>>) : b \in Branches}

\* motd_strip_formatting(raw_motd) is called.
strip_call ==
    /\ strip.pc = "start"
    /\ strip' = [strip EXCEPT !.pc = "once",
                              !.once = motd_strip_formatting(strip.raw_motd)]
    /\ UNCHANGED exceptStrip

\* motd_strip_formatting is called on the string the first call returned.
strip_again ==
    /\ strip.pc = "once"
    /\ strip' = [strip EXCEPT !.pc = "twice",
                              !.twice = motd_strip_formatting(Str(strip.once))]
    /\ UNCHANGED exceptStrip

(***************************************************************************)
(* SpecStrip: motd_strip_formatting applied to a MOTD and to its result.   *)
(***************************************************************************)
InitStrip ==
    /\ \E x \in {Str(s) : s \in MotdStrings} \cup Components :
          strip = [pc |-> "start", raw_motd |-> x, once |-> <<>>,
                   twice |-> <<>>]
    /\ McIdle /\ ListIdle
    /\ RecvIdle /\ ReplyIdle
    /\ VarintIdle /\ ParseIdle /\ RenderIdle /\ LangIdle

NextStrip ==
    \/ strip_call
    \/ strip_again

SpecStrip == InitStrip /\ [][NextStrip]_vars

(***************************************************************************)
(* parse_motd2html.  The HTML is a sequence of pieces: a piece is one      *)
(* character of text or one tag.                                           *)
(***************************************************************************)
RedSpan == "<span style=\"color:#AA0000;\">"
ResetTag == "</b></i></u></s>"

\* The entries of standard_color_map for red, bold, italic and reset, by
\* name and by legacy code: <<open_tag, close_tag>>.
standard_color_map ==
    [key \in {"red", "reset", "bold", "italic",
              SECT \o "c", SECT \o "r", SECT \o "l", SECT \o "o"} |->
        CASE key \in {"red", SECT \o "c"} -> <<RedSpan, "</span>">>
          [] key \in {"reset", SECT \o "r"} -> <<ResetTag, "">>
          [] key \in {"bold", SECT \o "l"} -> <<"<b style='color:{};'>", "</b>">>
          [] key \in {"italic", SECT \o "o"} -> <<"<i style='color:{};'>", "</i>">>]

\* text[i : i + 2] as one string: "" when i is past the end, one character
\* when i is the last index.
Slice2(text, i) ==
    IF i > Len(text) THEN ""
    ELSE IF i = Len(text) THEN text[i]
    ELSE text[i] \o text[i + 1]

RECURSIVE text_loop(_, _, _, _)
\* The while loop of parse_text_motd from index i (1-based) on, and the
\* closing loop after it.
text_loop(text, i, styles, result) ==
    IF i > Len(text) THEN result \o styles
    ELSE IF text[i] = SECT /\ Slice2(text, i) \in DOMAIN standard_color_map
    THEN LET open_tag == standard_color_map[Slice2(text, i)][1]
             close_tag == standard_color_map[Slice2(text, i)][2]
         IN  IF open_tag = ResetTag
             THEN text_loop(text, i + 2, <<>>, result \o styles)
             ELSE text_loop(text, i + 2, Append(styles, close_tag),
                            Append(result, open_tag))
    ELSE IF Slice2(text, i) = NL
    THEN text_loop(text, i + 2, styles, Append(result, "<br>"))
    ELSE text_loop(text, i + 1, styles, Append(result, text[i]))

parse_text_motd(text) == text_loop(text, 1, <<>>, <<>>)

\* result.replace("\n", "<br>")
replace_newlines(result) ==
    [k \in 1..Len(result) |-> IF result[k] = NL THEN "<br>" ELSE result[k]]

\* A JSON value: a string, an array, or an object with its keys in order,
\* its "text", "extra" and "color" and its "bold" and "italic" flags
\* ("underline" and "strikethrough" are treated the same way).
JStr(text) ==
    [kind |-> "str", keys |-> <<>>, text |-> text, extra |-> <<>>,
     color |-> "", bold |-> FALSE, italic |-> FALSE]
JList(items) ==
    [kind |-> "list", keys |-> <<>>, text |-> <<>>, extra |-> items,
     color |-> "", bold |-> FALSE, italic |-> FALSE]
JDict(keys, text, extra, color, bold, italic) ==
    [kind |-> "dict", keys |-> keys, text |-> text, extra |-> extra,
     color |-> color, bold |-> bold, italic |-> italic]

HasKey(json, key) == \E k \in 1..Len(json.keys) : json.keys[k] = key

\* The hex digits of a "#..." color, three-digit form doubled, upper-cased.
hex_color_code(color) ==
    CASE color = "#0f0" -> "00FF00"
      [] color = "#00FF00" -> "00FF00"

\* color_html_str and color_code of a plain object.
color_html_str(color) ==
    IF color \in {"#0f0", "#00FF00"}
    THEN <<"<span style=\"color:#" \o hex_color_code(color) \o ";\">",
           "</span>">>
    ELSE IF color \in DOMAIN standard_color_map
    THEN standard_color_map[color]
    ELSE <<"", "">>

color_code(color) ==
    IF color \in {"#0f0", "#00FF00"} THEN hex_color_code(color)
    ELSE IF color = "red" THEN "#AA0000"
    ELSE "#FFFFFF"

\* open_tag_.format(color_code)
format(open_tag_, code) ==
    CASE open_tag_ = "<b style='color:{};'>" -> "<b style='color:" \o code \o ";'>"
      [] open_tag_ = "<i style='color:{};'>" -> "<i style='color:" \o code \o ";'>"

\* A tag string as a sequence of pieces: the empty string adds nothing.
Pieces(tag) == IF tag = "" THEN <<>> ELSE <<tag>>

RECURSIVE parse_json_motd(_, _)
RECURSIVE parse_json_each(_, _, _)
\* parse_json_motd(json, styles); the value is the string returned and the
\* styles list as the call leaves it.
parse_json_motd(json, styles) ==
    IF json.kind = "dict" /\ HasKey(json, "extra")
    THEN LET parts == [k \in 1..Len(json.keys) |->
                          IF json.keys[k] = "extra" THEN JList(json.extra)
                          ELSE IF json.keys[k] = "text" THEN JStr(json.text)
                          ELSE JList(<<>>)]
             r == parse_json_each(parts, 1, [result |-> <<>>, styles |-> styles])
         IN  [result |-> replace_newlines(r.result), styles |-> r.styles]
    ELSE IF json.kind = "dict"
    THEN LET color == IF HasKey(json, "color") THEN json.color ELSE ""
             raw == IF HasKey(json, "text") THEN json.text ELSE <<>>
             text == IF \E k \in 1..Len(raw) : raw[k] = SECT
                     THEN parse_text_motd(raw) ELSE raw
             open0 == Pieces(color_html_str(color)[1])
             close0 == Pieces(color_html_str(color)[2])
             open1 == IF json.bold
                      THEN Append(open0, format(standard_color_map["bold"][1],
                                                color_code(color)))
                      ELSE open0
             close1 == IF json.bold
                       THEN <<standard_color_map["bold"][2]>> \o close0
                       ELSE close0
             open_tag == IF json.italic
                         THEN Append(open1, format(standard_color_map["italic"][1],
                                                   color_code(color)))
                         ELSE open1
             close_tag == IF json.italic
                          THEN <<standard_color_map["italic"][2]>> \o close1
                          ELSE close1
         IN  [result |-> replace_newlines(open_tag \o text \o close_tag),
              styles |-> Append(styles, close_tag)]
    ELSE IF json.kind = "list"
    THEN LET r == parse_json_each(json.extra, 1,
                                  [result |-> <<>>, styles |-> styles])
         IN  [result |-> replace_newlines(r.result), styles |-> r.styles]
    ELSE [result |-> replace_newlines(json.text), styles |-> styles]

\* result += await parse_json_motd(item, styles), for each item from the
\* k-th on.
parse_json_each(items, k, acc) ==
    IF k > Len(items) THEN acc
    ELSE LET r == parse_json_motd(items[k], acc.styles)
         IN  parse_json_each(items, k + 1,
                             [result |-> acc.result \o r.result,
                              styles |-> r.styles])

\* parse_motd2html(data): data is None, a text ujson.loads rejects, or the
\* text of a JSON value.  The value is <<>> for None and <<html>> otherwise;
\* parse_json_motd is defined anew by every call, so its default styles
\* list starts empty.
parse_motd2html(data) ==
    IF data.kind = "None" THEN <<>>
    ELSE IF data.kind = "text" THEN <<parse_text_motd(data.value.text)>>
    ELSE <<parse_json_motd(data.value, <<>>).result>>

\* The MOTDs rendered.
LegacyPieces ==
    {<<SECT, "c">>, <<SECT, "l">>, <<SECT, "r">>, <<"x">>, <<NL>>, <<SECT>>}
LegacyTexts ==
    {Concat(p) : p \in UNION {[1..n -> LegacyPieces] : n \in 0..5}}
JsonTexts == {<<"x">>, <<"x", NL, "x">>, <<SECT, "c", "x", NL>>}
JsonColors == {"", "red", "#0f0", "pink"}
PlainObjects ==
    {JDict(ks, t, <<>>, c, b, i) :
        ks \in {<<"text">>, <<"color", "text">>}, t \in JsonTexts,
        c \in JsonColors, b \in BOOLEAN, i \in BOOLEAN}
JsonChildren ==
    {JStr(<<"x", NL>>),
     JDict(<<"text">>, <<"x">>, <<>>, "", FALSE, FALSE),
     JDict(<<"color", "text">>, <<"y", NL, "y">>, <<>>, "red", TRUE, FALSE),
     JDict(<<"text", "extra">>, <<"z">>, <<JStr(<<"w">>)>>, "", FALSE, FALSE)}
JsonChildLists == UNION {[1..n -> JsonChildren] : n \in 0..2}
JsonValues ==
    PlainObjects
    \cup {JStr(t) : t \in JsonTexts}
    \cup {JList(x) : x \in JsonChildLists}
    \cup {JDict(ks, t, x, c, b, FALSE) :
             ks \in {<<"text", "extra">>, <<"extra", "text">>,
                     <<"color", "text", "extra">>, <<"extra">>},
             t \in {<<"x">>, <<NL>>}, x \in JsonChildLists,
             c \in {"", "red"}, b \in BOOLEAN}
RenderInputs ==
    {[kind |-> "None", value |-> JStr(<<>>)]}
    \cup {[kind |-> "text", value |-> JStr(t)] : t \in LegacyTexts}
    \cup {[kind |-> "json", value |-> v] : v \in JsonValues}

\* parse_motd2html(data) is called.
parse_motd2html_call ==
    /\ render.pc = "start"
    /\ render' = [render EXCEPT !.pc = "done",
                                !.html = parse_motd2html(render.data)]
    /\ UNCHANGED exceptRender

(***************************************************************************)
(* SpecHtml: parse_motd2html applied to a MOTD.                            *)
(***************************************************************************)
InitHtml ==
    /\ \E d \in RenderInputs :
          render = [pc |-> "start", data |-> d, html |-> <<>>]
    /\ McIdle /\ ListIdle
    /\ RecvIdle /\ ReplyIdle
    /\ VarintIdle /\ ParseIdle /\ StripIdle /\ LangIdle

NextHtml == parse_motd2html_call

SpecHtml == InitHtml /\ [][NextHtml]_vars

(***************************************************************************)
(* The locale: change_language_to and the set_lang / lang_now handlers     *)
(***************************************************************************)
\* The keys of lang_data (language.json).
lang_data == {"zh-cn", "en"}

\* How many requests are followed.
MaxRequests == 3

\* change_language_to with the test "language == lang" left out.
change_language_to_unchecked(language, current) ==
    IF language \notin lang_data
    THEN [ret |-> <<"No language named", language>>, lang |-> current]
    ELSE [ret |-> <<"Change to success", language>>, lang |-> language]

\* change_language_to without "global lang": the assignment is lost.
change_language_to_local(language, current) ==
    IF language \notin lang_data
    THEN [ret |-> <<"No language named", language>>, lang |-> current]
    ELSE IF language = current
    THEN [ret |-> <<"The language is already", language>>, lang |-> current]
    ELSE [ret |-> <<"Change to success", language>>, lang |-> current]

\* change_language_to(language) when the global lang is current: the
\* message returned and the global afterwards.  The coroutine has no await,
\* so no other handler runs between its test and its assignment.
change_language_to(language, current) ==
    IF language \notin lang_data
    THEN [ret |-> <<"No language named", language>>, lang |-> current]
    ELSE IF language = current
    THEN [ret |-> <<"The language is already", language>>, lang |-> current]
    ELSE [ret |-> <<"Change to success", language>>, lang |-> language]

\* A request: which command, its argument, how far its handler is
\* ("start", "reply" = its body ran and it awaits the send, "done"), the
\* message it sends, and at, the position of its body among the handler
\* bodies run so far.
Request(kind, arg) ==
    [kind |-> kind, language |-> arg, pc |-> "start", reply |-> <<>>,
     at |-> 0]

Handled == {r \in 1..Len(requests) : requests[r].pc # "start"}

\* A set_lang or lang_now command arrives; "" is a missing argument.
request_arrives ==
    /\ Len(requests) < MaxRequests
    /\ \E kind \in {"set_lang", "lang_now"} :
       \E arg \in IF kind = "set_lang" THEN lang_data \cup {"fr", ""}
                  ELSE {""} :
          requests' = Append(requests, Request(kind, arg))
    /\ UNCHANGED lang
    /\ UNCHANGED exceptLang

\* The body of the lang_change handler, up to its await of finish.
lang_change_handle(r) ==
    /\ requests[r].kind = "set_lang"
    /\ requests[r].pc = "start"
    /\ LET call == change_language_to(requests[r].language, lang)
           text == IF requests[r].language # "" THEN call.ret
                   ELSE <<"Language?", "">>
       IN  /\ lang' = IF requests[r].language # "" THEN call.lang ELSE lang
           /\ requests' = [requests EXCEPT
                              ![r].pc = "reply",
                              ![r].reply = text,
                              ![r].at = Cardinality(Handled) + 1]
    /\ UNCHANGED exceptLang

\* The body of the lang_now handler, up to its await of send.
lang_now_handle(r) ==
    /\ requests[r].kind = "lang_now"
    /\ requests[r].pc = "start"
    /\ requests' = [requests EXCEPT
                       ![r].pc = "reply",
                       ![r].reply = <<"Language:", lang>>,
                       ![r].at = Cardinality(Handled) + 1]
    /\ UNCHANGED lang
    /\ UNCHANGED exceptLang

\* The send or finish a handler awaits completes.
reply_sent(r) ==
    /\ requests[r].pc = "reply"
    /\ requests' = [requests EXCEPT ![r].pc = "done"]
    /\ UNCHANGED lang
    /\ UNCHANGED exceptLang

(***************************************************************************)
(* SpecLang: concurrent set_lang and lang_now handlers on the one global,  *)
(* which the module's import sets from the configuration.                  *)
(***************************************************************************)
InitLang ==
    /\ config_language \in lang_data
    /\ lang = config_language
    /\ requests = <<>>
    /\ McIdle /\ ListIdle
    /\ RecvIdle /\ ReplyIdle
    /\ VarintIdle /\ ParseIdle /\ StripIdle /\ RenderIdle

NextLang ==
    \/ request_arrives
    \/ \E r \in 1..Len(requests) : lang_change_handle(r)
    \/ \E r \in 1..Len(requests) : lang_now_handle(r)
    \/ \E r \in 1..Len(requests) : reply_sent(r)

SpecLang == InitLang /\ [][NextLang]_vars

(***************************************************************************)
(* MineStat._recv_exact, called by a TCP probe                             *)
(***************************************************************************)
\* Faulty variant of recv_request: every read asks for size bytes.
recv_request_size(size, data) == size

\* The argument of sock.recv in the loop: the bytes still missing.
recv_request(size, data) == size - Len(data)

\* The probe routine r suspended at its receive.
ProbeAtRecv(r) ==
    Resume(Resume(MineStat(0, r, FALSE), Ev("ok", NoData)), Ev("ok", NoData))

\* sock.recv returned some bytes: at least one, at most the number asked
\* for, and no more than the peer has sent and not yet delivered.
recv_exact_read ==
    /\ recvx.pc = "loop"
    /\ Len(recvx.data) < recvx.size
    /\ \E k \in 1..recv_request(recvx.size, recvx.data) :
          /\ recvx.pos + k <= Len(recvx.stream)
          /\ recvx' = [recvx EXCEPT
                          !.data = @ \o SubSeq(recvx.stream, recvx.pos + 1,
                                               recvx.pos + k),
                          !.pos = @ + k,
                          !.reads = @ + 1]
    /\ UNCHANGED exceptRecv

\* sock.recv returned no bytes (the peer closed after all it sent was
\* read): _recv_exact raises ConnectionAbortedError and the probe returns
\* the status of its handler.
recv_exact_closed ==
    /\ recvx.pc = "loop"
    /\ Len(recvx.data) < recvx.size
    /\ recvx.pos = Len(recvx.stream)
    /\ recvx' = [recvx EXCEPT
                    !.pc = "raised",
                    !.raised = "aborted",
                    !.status = Resume(ProbeAtRecv(recvx.routine),
                                      Ev("aborted", NoData)).retval]
    /\ UNCHANGED exceptRecv

\* sock.recv raised TimeoutError or another OSError, which leaves
\* _recv_exact; the probe returns the status of its handler.
recv_exact_error ==
    /\ recvx.pc = "loop"
    /\ Len(recvx.data) < recvx.size
    /\ \E io \in {"timeout", "oserror"} :
          recvx' = [recvx EXCEPT
                       !.pc = "raised",
                       !.raised = io,
                       !.status = Resume(ProbeAtRecv(recvx.routine),
                                         Ev(io, NoData)).retval]
    /\ UNCHANGED exceptRecv

\* The loop ends: _recv_exact returns data.
recv_exact_return ==
    /\ recvx.pc = "loop"
    /\ Len(recvx.data) >= recvx.size
    /\ recvx' = [recvx EXCEPT !.pc = "returned"]
    /\ UNCHANGED exceptRecv

(***************************************************************************)
(* SpecRecv: one _recv_exact(sock, size) of a TCP probe; the peer sends    *)
(* the bytes of stream, which arrive in chunks, and closes; reads counts   *)
(* the reads that returned bytes.                                          *)
(***************************************************************************)
InitRecv ==
    /\ \E r \in {BETA, LEGACY, EXTENDED_LEGACY, JSON} :
       \E size \in 0..3 :
       \E sent \in 0..4 :
          recvx = [pc |-> "loop", routine |-> r, size |-> size,
                   stream |-> [k \in 1..sent |-> k], pos |-> 0,
                   data |-> <<>>, reads |-> 0, raised |-> "",
                   status |-> None]
    /\ McIdle /\ ListIdle
    /\ VarintIdle /\ ParseIdle /\ StripIdle /\ RenderIdle /\ LangIdle
    /\ ReplyIdle

NextRecv ==
    \/ recv_exact_read
    \/ recv_exact_closed
    \/ recv_exact_error
    \/ recv_exact_return

SpecRecv == InitRecv /\ [][NextRecv]_vars

(***************************************************************************)
(* SpecRenderings: parse_motd2html called again and again on JSON MOTDs.   *)
(* render.styles is the list the default argument of parse_json_motd is    *)
(* bound to, as the last call left it; render.done is the history of the   *)
(* calls: the data, the styles list the call started from, and the HTML.   *)
(***************************************************************************)
MaxRenderings == 3

\* The default list with the old one carried over from call to call.
kept_default_styles(old) == old

\* "async def parse_json_motd(json, styles=[])" is executed by every call of
\* parse_motd2html: the function object and its default list are new.
new_default_styles(old) == <<>>

RenderingInputs ==
    {[kind |-> "json", value |-> v] :
        v \in {JStr(<<"x", NL>>),
               JDict(<<"text">>, <<"x">>, <<>>, "", FALSE, FALSE),
               JDict(<<"color", "text">>, <<"y">>, <<>>, "red", TRUE, FALSE),
               JDict(<<"color", "text">>, <<SECT, "c", "x">>, <<>>, "#0f0",
                     FALSE, TRUE),
               JList(<<JDict(<<"text">>, <<"x">>, <<>>, "", FALSE, FALSE),
                       JStr(<<"w">>)>>),
               JDict(<<"text", "extra">>, <<"z">>,
                     <<JDict(<<"color", "text">>, <<"y">>, <<>>, "red",
                             FALSE, FALSE)>>, "", FALSE, FALSE)}}

\* parse_motd2html(data) is called with the text of a JSON value.
parse_motd2html_render ==
    /\ render.pc = "ready"
    /\ Len(render.done) < MaxRenderings
    /\ \E d \in RenderingInputs :
          LET entry == new_default_styles(render.styles)
              r == parse_json_motd(d.value, entry)
          IN  render' = [render EXCEPT
                  !.styles = r.styles,
                  !.done = Append(@, [data |-> d, entry |-> entry,
                                      html |-> r.result])]
    /\ UNCHANGED exceptRender

InitRenderings ==
    /\ render = [pc |-> "ready", styles |-> <<>>, done |-> <<>>]
    /\ McIdle /\ ListIdle
    /\ VarintIdle /\ ParseIdle /\ StripIdle /\ LangIdle
    /\ RecvIdle /\ ReplyIdle

NextRenderings == parse_motd2html_render

SpecRenderings == InitRenderings /\ [][NextRenderings]_vars

(***************************************************************************)
(* SpecReply: the message loop of get_message_list while change_language_to*)
(* is called by other handlers.  reply is one call of get_message_list     *)
(* from the return of the gather on:                                       *)
(*   pc        "gather" (awaiting the results), "render" (build_result is  *)
(*             suspended in template_to_pic), "returned"                   *)
(*   type      configs.message_type                                        *)
(*   records   how many records of the results are not None                *)
(*   pending   the locale of the dict the suspended build_result built     *)
(*   messages  the locale each message is labelled with ("None" for the    *)
(*             None a build_result without return gives)                   *)
(* A coroutine runs without interruption from one suspension to the next:  *)
(* only "await template_to_pic" suspends the loop.                         *)
(***************************************************************************)
MaxRecords == 3

\* The locale of the message build_result returns at once (type # 0): the
\* labels are read from lang_data[lang] for every type, and type 1 alone
\* returns them.
build_result_text(type, current) == IF type = 1 THEN current ELSE "None"

\* "if not messages: messages.append(Text(lang_data[lang][status]))"
status_message(msgs, current) ==
    IF msgs = <<>> THEN <<current>> ELSE msgs

\* The gather returns and the loop runs up to its first suspension: with
\* type 0 the first build_result reads lang_data[lang] and awaits
\* template_to_pic; with another type the loop runs to the return.
results_gathered ==
    /\ reply.pc = "gather"
    /\ reply' =
         IF reply.type = 0 /\ reply.records > 0
         THEN [reply EXCEPT !.pc = "render", !.pending = lang]
         ELSE [reply EXCEPT
                  !.pc = "returned",
                  !.messages = status_message(
                      [k \in 1..reply.records |->
                          build_result_text(reply.type, lang)], lang)]
    /\ UNCHANGED <<lang, exceptReply>>

\* template_to_pic returns: the Image is appended, and the loop runs on to
\* the next build_result, which reads lang_data[lang] and suspends, or to
\* the return.
template_to_pic_returns ==
    /\ reply.pc = "render"
    /\ LET messages_ == Append(reply.messages, reply.pending)
       IN  reply' =
             IF Len(messages_) < reply.records
             THEN [reply EXCEPT !.messages = messages_, !.pending = lang]
             ELSE [reply EXCEPT !.pc = "returned", !.messages = messages_,
                                !.pending = "None"]
    /\ UNCHANGED <<lang, exceptReply>>

\* Another handler calls change_language_to(language) while this one is
\* suspended.
change_language_to_call ==
    /\ reply.pc # "returned"
    /\ \E language \in lang_data \cup {"fr"} :
          lang' = change_language_to(language, lang).lang
    /\ UNCHANGED <<reply, exceptReply>>

InitReply ==
    /\ config_language \in lang_data
    /\ lang \in lang_data
    /\ requests = <<>>
    /\ \E type \in MessageTypes, n \in 0..MaxRecords :
          reply = [pc |-> "gather", type |-> type, records |-> n,
                   pending |-> "None", messages |-> <<>>]
    /\ McIdle /\ ListIdle
    /\ VarintIdle /\ ParseIdle /\ StripIdle /\ RenderIdle /\ RecvIdle

NextReply ==
    \/ results_gathered
    \/ template_to_pic_returns
    \/ change_language_to_call

SpecReply == InitReply /\ [][NextReply]_vars

(***************************************************************************)
(* Properties of the Java chain (get_java)                                 *)
(***************************************************************************)
JavaChain == <<LEGACY, BETA, EXTENDED_LEGACY, QUERY, JSON>>
ChainIndex(p) == CHOOSE i \in 1..Len(JavaChain) : JavaChain[i] = p

java == attempts["java"]
JavaReturned == pc["java"] = "returned"
\* The tuple get_java returned: its record (Nothing or Some) and its status.
JavaRecord == ret["java"][1][1]
JavaStatus == ret["java"][1][2]
Attempted(p) == \E i \in 1..Len(java) : java[i].protocol = p
\* The attempts of the chain that stand before protocol p in the chain order.
Before(p) == SelectSeq(java, LAMBDA a : ChainIndex(a.protocol) < ChainIndex(p))
Last(h) == h[Len(h)]

\* C1: once a probe of the Java chain returned CONNFAIL, no later probe of
\* the chain is attempted: an attempt with status CONNFAIL is the last one.
C1_ConnfailEndsChain ==
    \A i \in 1..Len(java) : java[i].status = CONNFAIL => i = Len(java)

\* C1 witness: get_java returned after LEGACY alone, which returned CONNFAIL.
C1_Witness ==
    JavaReturned /\ java = <<Attempt(LEGACY, CONNFAIL)>>

\* C2 (as claimed): when some probe of the chain returned SUCCESS, get_java
\* returns the record of the first probe that succeeded.
C2_FirstSuccessWins ==
    (JavaReturned /\ \E i \in 1..Len(java) : java[i].status = SUCCESS) =>
        LET first == CHOOSE i \in 1..Len(java) :
                        /\ java[i].status = SUCCESS
                        /\ \A j \in 1..(i - 1) : java[j].status # SUCCESS
        IN  /\ JavaRecord # Nothing
            /\ JavaRecord[1].slp_protocol = java[first].protocol

\* C3 (as claimed): with no SUCCESS and some status other than CONNFAIL,
\* get_java reports the status of the last attempt that was not CONNFAIL.
C3_LastNonConnfail ==
    (/\ JavaReturned
     /\ \A i \in 1..Len(java) : java[i].status # SUCCESS
     /\ \E i \in 1..Len(java) : java[i].status # CONNFAIL) =>
        LET last == CHOOSE i \in 1..Len(java) :
                        /\ java[i].status # CONNFAIL
                        /\ \A j \in (i + 1)..Len(java) : java[j].status = CONNFAIL
        IN  JavaStatus = java[last].status

\* C3 (amended): with no SUCCESS and some status other than CONNFAIL,
\* get_java reports the status of the last attempted probe, which is
\* CONNFAIL when a CONNFAIL cut the chain short.
C3_LastAttempted ==
    (/\ JavaReturned
     /\ \A i \in 1..Len(java) : java[i].status # SUCCESS
     /\ \E i \in 1..Len(java) : java[i].status # CONNFAIL) =>
        /\ JavaRecord = Nothing
        /\ JavaStatus = Last(java).status

\* C3 witness: LEGACY timed out, then BETA returned CONNFAIL and get_java
\* returned.
C3_Witness ==
    JavaReturned /\ java = <<Attempt(LEGACY, TIMEOUT), Attempt(BETA, CONNFAIL)>>

\* C4: the chain attempts LEGACY, BETA, EXTENDED_LEGACY, QUERY, JSON in this
\* order, each at most once and one at a time; BETA exactly when LEGACY
\* returned neither CONNFAIL nor SUCCESS; each of EXTENDED_LEGACY, QUERY,
\* JSON exactly when the result current at its turn is not CONNFAIL.
C4_ChainOrder ==
    /\ Len(java) > 0 => java[1].protocol = LEGACY
    /\ \A i \in 1..Len(java) : \A j \in 1..Len(java) :
          i < j => ChainIndex(java[i].protocol) < ChainIndex(java[j].protocol)
    /\ \A i \in 1..Len(java) : java[i].status = RUNNING => i = Len(java)
    /\ Attempted(BETA) <=> (Len(java) > 0 /\ java[1].status \in {TIMEOUT, UNKNOWN})
    /\ \A p \in {EXTENDED_LEGACY, QUERY, JSON} :
          Attempted(p) <=>
             (/\ Before(p) # <<>>
              /\ Last(Before(p)).status \in {SUCCESS, TIMEOUT, UNKNOWN}
              /\ Last(Before(p)).protocol = LEGACY =>
                    Last(Before(p)).status = SUCCESS)

\* C4 witness: get_java returned after all five probes, one of which timed
\* out.
C4_Witness ==
    /\ JavaReturned
    /\ Len(java) = 5
    /\ \E i \in 1..Len(java) : java[i].status = TIMEOUT

(***************************************************************************)
(* Properties of get_mc, get_java, get_bedrock                             *)
(***************************************************************************)
JavaProtocols == {LEGACY, BETA, EXTENDED_LEGACY, QUERY, JSON}

\* C5: for a kind that starts with SRV get_mc runs the Java chain alone (no
\* Bedrock probe is ever started) and returns [java]; for every other kind
\* it runs both and returns [java, bedrock].
C5_SrvJavaOnly ==
    /\ \A i \in 1..Len(attempts["java"]) :
          attempts["java"][i].protocol \in JavaProtocols
    /\ \A i \in 1..Len(attempts["bedrock"]) :
          attempts["bedrock"][i].protocol = BEDROCK_RAKNET
    /\ startswith_SRV(ip_type) =>
          /\ attempts["bedrock"] = <<>>
          /\ ms["bedrock"] = NoObj
          /\ pc_mc \in {"gather", "returned", "raised"} => attempts["java"] # <<>>
          /\ pc_mc = "returned" => ret_mc = <<ret["java"][1]>>
    /\ ~startswith_SRV(ip_type) =>
          /\ pc_mc \in {"gather", "returned", "raised"} =>
                attempts["java"] # <<>> /\ attempts["bedrock"] # <<>>
          /\ pc_mc = "returned" => ret_mc = <<ret["java"][1], ret["bedrock"][1]>>

\* C5 witness: get_mc returned a one-element list for an SRV kind.
C5_Witness ==
    pc_mc = "returned" /\ startswith_SRV(ip_type) /\ Len(ret_mc) = 1

\* The tuples get_java and get_bedrock have returned so far.
Returned == {ret[t][1] : t \in {u \in Threads : ret[u] # Nothing}}

C7_RecordOnline ==
    \A r \in Returned :
        r[1] # Nothing => r[1][1].online /\ r[1][1].slp_protocol # None

\* C7 witness: get_java and get_bedrock both returned a record.
C7_Witness ==
    /\ ret["java"] # Nothing /\ ret["java"][1][1] # Nothing
    /\ ret["bedrock"] # Nothing /\ ret["bedrock"][1][1] # Nothing

(***************************************************************************)
(* Invariants of a constructed MineStat                                    *)
(***************************************************************************)
Objects == {ms[t] : t \in AllThreads}

\* C8: for every MineStat whose construction completed, online holds
\* exactly when connection_status is SUCCESS.
C8_OnlineIffSuccess ==
    \A o \in Objects :
        o.phase = "done" => (o.online <=> o.connection_status = SUCCESS)

\* C8 witness: an ALL construction completed online, its Bedrock, Legacy
\* and Extended Legacy probes having failed and its JSON probe succeeded.
C8_Witness ==
    \E o \in Objects :
        /\ o.phase = "done" /\ o.query_protocol = ALL
        /\ o.routine = JSON /\ o.online /\ o.result # SUCCESS

\* C9 (as claimed): for every MineStat whose construction completed,
\* slp_protocol is set exactly when online holds.
C9_ProtocolIffOnline ==
    \A o \in Objects :
        o.phase = "done" => (o.slp_protocol # None <=> o.online)

\* C10 (as claimed): latency is set on the object once a TCP connect of a
\* probe completed or a UDP reply was received.
C10_LatencySet ==
    \A o \in Objects : o.linked => o.latency # None

(***************************************************************************)
(* Resources and failures of the six probe routines                        *)
(***************************************************************************)
\* C11 (as claimed): no probe routine returns or raises while the socket
\* it opened is still open.
C11_SocketClosedOnExit ==
    \A o \in Objects : o.phase \in {"returned", "raised"} => o.sock = "closed"

\* C12 (as claimed): a step of a probe routine that handles a received
\* reply never ends in an exception that leaves the routine: the routine
\* goes on or returns a status.
C12_ParseFailureCaught ==
    [][\A t \in AllThreads :
          ms[t].phase \in {"recv", "recv2"} => ms'[t].phase # "raised"]_vars

(***************************************************************************)
(* Properties of get_message_list                                          *)
(***************************************************************************)
ListReturned == pc_list = "returned"
\* The list the get_mc of target number i returned.
Got(i) == results[i][1]
\* The places of the gathered results: target number, then 1 for the Java
\* chain and 2 for the Bedrock probe.
Positions ==
    {a \in (1..Len(results)) \X (1..2) : a[2] <= Len(Got(a[1]))}
Earlier(a, b) == a[1] < b[1] \/ (a[1] = b[1] /\ a[2] < b[2])
RecordAt(a) == Got(a[1])[a[2]][1]
StatusAt(a) == Got(a[1])[a[2]][2]
\* The messages that carry a record, by their index in the returned list.
RecordMessages ==
    {k \in 1..Len(messages) : messages[k].kind \in {"Image", "Texts"}}
MessagesOf(i) == {k \in RecordMessages : messages[k].record.target = i}
RecordsOf(i) == {a \in Positions : a[1] = i /\ RecordAt(a) # Nothing}

\* C13: when get_message_list returns and no probe yielded a record, it
\* returns exactly one message, a status: the first status other than
\* CONNFAIL in target order (Java before Bedrock) when there is one, and
\* CONNFAIL when every status is CONNFAIL.
C13_MostInformativeStatus ==
    (ListReturned /\ \A a \in Positions : RecordAt(a) = Nothing) =>
        /\ Len(messages) = 1
        /\ messages[1].kind = "Text"
        /\ IF \E a \in Positions : StatusAt(a) # CONNFAIL
           THEN \E a \in Positions :
                   /\ StatusAt(a) # CONNFAIL
                   /\ \A b \in Positions : Earlier(b, a) => StatusAt(b) = CONNFAIL
                   /\ messages[1].status = StatusAt(a)
           ELSE messages[1].status = CONNFAIL

\* C13 witness: two targets without a record, the first all CONNFAIL, the
\* second TIMEOUT then UNKNOWN; TIMEOUT is reported.
C13_Witness ==
    /\ ListReturned
    /\ Len(results) = 2
    /\ \A a \in Positions : RecordAt(a) = Nothing
    /\ \A a \in Positions : a[1] = 1 => StatusAt(a) = CONNFAIL
    /\ StatusAt(<<2, 1>>) = TIMEOUT
    /\ <<2, 2>> \in Positions /\ StatusAt(<<2, 2>>) = UNKNOWN
    /\ messages[1].status = TIMEOUT

\* C14: when the resolution returned no target, no get_mc is started and
\* get_message_list returns exactly one message, the status CONNFAIL.
C14_NoTargetConnfail ==
    (ip_groups # Nothing /\ ip_groups[1] = <<>>) =>
        /\ results = <<>>
        /\ pc_list # "raised"
        /\ (ListReturned =>
               messages = <<Message("Text", NoRecord, CONNFAIL)>>)

\* C14 witness: get_message_list returned for a domain without any answer.
C14_Witness ==
    ListReturned /\ ip_groups[1] = <<>> /\ get_ip_type(host) = "Domain"

C16_MessagesInTargetOrder ==
    ListReturned =>
        \A k, l \in RecordMessages :
            k < l =>
                \/ messages[k].record.target < messages[l].record.target
                \/ /\ messages[k].record.target = messages[l].record.target
                   /\ messages[k].record.probe = "java"
                   /\ messages[l].record.probe = "bedrock"

\* C16 witness: the get_mc of a later target returned before that of an
\* earlier one, and records of two targets are reported, two of them from
\* one target.
C16_Witness ==
    /\ ListReturned
    /\ overtaken
    /\ \E k, l, n \in RecordMessages :
          /\ messages[k].record.target # messages[l].record.target
          /\ messages[l].record.target = messages[n].record.target
          /\ l # n

(***************************************************************************)
(* Properties of the resolver (get_origin_address)                         *)
(***************************************************************************)
\* The target list get_origin_address returned.
Targets == IF ip_groups = Nothing THEN <<>> ELSE ip_groups[1]

\* C17 (as claimed): the returned target list holds no SRV target of port
\* 25565 after a direct (A / AAAA) target of the same ip.
C17_SrvDefaultPortSuppressed ==
    \A j \in 1..Len(Targets) : \A i \in 1..(j - 1) :
        ~ /\ startswith_SRV(Targets[j][3])
          /\ Targets[j][2] = DEFAULT_TCP_PORT
          /\ ~startswith_SRV(Targets[i][3])
          /\ Targets[i][1] = Targets[j][1]

\* C18 (as claimed): for an address that is neither an IPv4 literal, an
\* IPv6 literal nor a domain, get_origin_address returns no target and no
\* get_mc is started.
C18_UnknownRejected ==
    get_ip_type(host) = "Unknown" => Targets = <<>> /\ results = <<>>

(***************************************************************************)
(* Properties of the constructor's choice of routine and port              *)
(***************************************************************************)
\* C19: a MineStat constructed with a single protocol enters exactly the
\* routine of that protocol, once, and when the constructor returns
\* connection_status is the value that routine returned.
C19_SingleProtocolOnly ==
    \A o \in Objects :
        o.query_protocol \notin {None, ALL} =>
            /\ Len(o.dialed) = 1
            /\ o.dialed[1].routine = o.query_protocol
            /\ (o.phase = "done" => o.connection_status = o.retval)

\* C19 witness: a construction with protocol LEGACY returned after the
\* Legacy probe timed out.
C19_Witness ==
    \E o \in Objects :
        /\ o.query_protocol = LEGACY /\ o.phase = "done"
        /\ o.retval = TIMEOUT /\ o.connection_status = TIMEOUT

\* The default port of a routine's protocol.
DefaultPort(routine, use_ipv6) ==
    IF routine = BEDROCK_RAKNET
    THEN IF use_ipv6 THEN DEFAULT_BEDROCK_PORT_V6 ELSE DEFAULT_BEDROCK_PORT_V4
    ELSE DEFAULT_TCP_PORT

\* C20 (as claimed): every routine of a MineStat constructed with port 0
\* dials the default port of its own protocol.
C20_DefaultPortDialed ==
    \A o \in Objects :
        o.autoport =>
            \A k \in 1..Len(o.dialed) :
                o.dialed[k].port = DefaultPort(o.dialed[k].routine, o.use_ipv6)

(***************************************************************************)
(* Properties of the VarInt codec                                          *)
(***************************************************************************)
\* C21: for every u with 0 <= u < 2^31, _pack_varint(u) is 1 to 5 bytes
\* long, and _unpack_varint reading those bytes returns u and leaves on
\* the socket exactly what followed them.
C21_VarIntRoundTrip ==
    /\ varint.pc \in {"packed", "sent", "unpacked"} =>
          Len(varint.ordinal) \in 1..5
    /\ varint.pc = "unpacked" =>
          varint.value = varint.u /\ varint.sock = varint.trailer

\* C21 witness: the largest integer, five bytes long, was unpacked from a
\* socket that holds more bytes after it.
C21_Witness ==
    /\ varint.pc = "unpacked"
    /\ varint.u = 2147483647
    /\ Len(varint.ordinal) = 5
    /\ varint.trailer # <<>>

(***************************************************************************)
(* Properties of parse_host                                                *)
(***************************************************************************)
\* The pair the claim expects: the host and int(port), 0 for no port.
ParseExpected ==
    [address |-> parse.host,
     port |-> IF parse.port = <<>> THEN 0 ELSE int(parse.port)]

C23_StripIdempotent ==
    strip.pc = "twice" => strip.twice = strip.once

RECURSIVE DepthFirstText(_)
\* The text fields of a component tree in depth-first order, joined; the
\* text of a string node is the string without its formatting codes.
DepthFirstText(node) ==
    IF node.kind = "str" THEN re_sub_codes(node.text)
    ELSE node.text \o Concat([k \in 1..Len(node.extra) |->
                                 DepthFirstText(node.extra[k])])

\* C24 (as claimed): for a component tree with an object or an array as
\* root, motd_strip_formatting returns the depth-first concatenation of
\* the text fields of the tree.
C24_StripIsDepthFirstText ==
    (strip.pc # "start" /\ strip.raw_motd.kind \in {"dict", "list"}) =>
        strip.once = DepthFirstText(strip.raw_motd)

(***************************************************************************)
(* Properties of parse_motd2html                                           *)
(***************************************************************************)
\* The close tag that ends the element an open tag starts.
CloseOf ==
    [tag \in {RedSpan, "<b style='color:{};'>", "<i style='color:{};'>"} |->
        CASE tag = RedSpan -> "</span>"
          [] tag = "<b style='color:{};'>" -> "</b>"
          [] tag = "<i style='color:{};'>" -> "</i>"]

RECURSIVE WellNested(_, _, _)
\* From piece k on, every close tag ends the innermost open element, and
\* no element is left open: open holds the close tags awaited, innermost
\* first.
WellNested(html, k, open) ==
    IF k > Len(html) THEN open = <<>>
    ELSE IF html[k] \in DOMAIN CloseOf
    THEN WellNested(html, k + 1, <<CloseOf[html[k]]>> \o open)
    ELSE IF html[k] \in {"</span>", "</b>", "</i>"}
    THEN /\ open # <<>>
         /\ Head(open) = html[k]
         /\ WellNested(html, k + 1, Tail(open))
    ELSE WellNested(html, k + 1, open)

\* C25 (as claimed): the HTML of a legacy-code string is well nested: every
\* tag a code opened is closed exactly once, the close tags in the reverse
\* order of the opens.
C25_LegacyHtmlWellNested ==
    (render.pc = "done" /\ render.data.kind = "text") =>
        WellNested(render.html[1], 1, <<>>)

\* How many pieces of s are x.
Count(s, x) == Cardinality({k \in 1..Len(s) : s[k] = x})

RECURSIVE Newlines(_)
RECURSIVE NewlinesEach(_, _)
\* The newlines in the texts of a JSON value.
Newlines(json) ==
    IF json.kind = "dict"
    THEN (IF HasKey(json, "text") THEN Count(json.text, NL) ELSE 0)
         + (IF HasKey(json, "extra") THEN NewlinesEach(json.extra, 1) ELSE 0)
    ELSE IF json.kind = "list" THEN NewlinesEach(json.extra, 1)
    ELSE Count(json.text, NL)

NewlinesEach(items, k) ==
    IF k > Len(items) THEN 0
    ELSE Newlines(items[k]) + NewlinesEach(items, k + 1)

\* C26 (as claimed): the HTML of a legacy-code string or a JSON component
\* holds no newline, and one "<br>" for each newline of the input.
C26_NewlinesBecomeBr ==
    (render.pc = "done" /\ render.data.kind # "None") =>
        /\ Count(render.html[1], NL) = 0
        /\ Count(render.html[1], "<br>") = Newlines(render.data.value)

(***************************************************************************)
(* Properties of the locale                                                *)
(***************************************************************************)
\* C27: change_language_to(code) has exactly three outcomes: code is not a
\* key of the language table, then the "No language named" message and the
\* locale unchanged; code is the current locale, then the "already" message
\* and the locale unchanged; otherwise the locale becomes code and the
\* message is the success message.
C27_ThreeOutcomes ==
    [][\A r \in 1..Len(requests) :
          (/\ requests[r].kind = "set_lang"
           /\ requests[r].language # ""
           /\ requests[r].pc = "start"
           /\ requests'[r].pc = "reply") =>
              LET code == requests[r].language
                  out == requests'[r].reply
              IN  \/ /\ code \notin lang_data
                     /\ out = <<"No language named", code>>
                     /\ lang' = lang
                  \/ /\ code \in lang_data
                     /\ code = lang
                     /\ out = <<"The language is already", code>>
                     /\ lang' = lang
                  \/ /\ code \in lang_data
                     /\ code # lang
                     /\ out = <<"Change to success", code>>
                     /\ lang' = code]_vars

\* Each of the three outcomes has happened.
C27_Witness ==
    /\ \E r \in Handled : requests[r].reply = <<"No language named", "fr">>
    /\ \E r \in Handled : requests[r].reply[1] = "The language is already"
    /\ \E r \in Handled :
          /\ requests[r].reply[1] = "Change to success"
          /\ lang = requests[r].language
          /\ lang # config_language

\* The locale after the first n - 1 handler bodies: the code of the last
\* of them that returned success, the configured locale if none did.
LocaleBefore(n) ==
    LET won == {r \in Handled : /\ requests[r].at < n
                                /\ requests[r].reply[1] = "Change to success"}
    IN  IF won = {} THEN config_language
        ELSE LET last == CHOOSE r \in won :
                            \A q \in won : requests[q].at <= requests[r].at
             IN  requests[last].language

C29_BuildResultNotNone ==
    ListReturned => \A k \in 1..Len(messages) : messages[k].kind # "None"

\* C30 (as claimed): for a domain with an A record, an AAAA record and an
\* SRV record whose target resolves to the same IPv4 address on another
\* port, get_origin_address returns exactly the three targets
\* [A, AAAA, SRV-IPv4], in that order, whatever the order in which the
\* lookups complete.
C30_TargetsInRecordOrder ==
    (\E a, b, s \in 1..Len(Targets) :
        /\ Targets[a][3] = <<"IPv4">>
        /\ Targets[b][3] = <<"IPv6">>
        /\ Targets[s][3] = <<"SRV-", "IPv4">>
        /\ Targets[s][1] = Targets[a][1]
        /\ Targets[s][2] # Targets[a][2]) =>
            /\ Len(Targets) = 3
            /\ Targets[1][3] = <<"IPv4">>
            /\ Targets[2][3] = <<"IPv6">>
            /\ Targets[3][3] = <<"SRV-", "IPv4">>

(***************************************************************************)
(* Properties of the resolver (get_origin_address)                         *)
(***************************************************************************)
\* C31 (as claimed): under every order of completion of the A, AAAA and
\* SRV lookups, the returned target list holds no two entries with the
\* same ip, the same port and the same address family ("SRV-" stripped).
C31_NoDuplicateTargets ==
    \A i, j \in 1..Len(Targets) :
        (/\ Targets[i][1] = Targets[j][1]
         /\ Targets[i][2] = Targets[j][2]
         /\ replace_SRV(Targets[i][3]) = replace_SRV(Targets[j][3])) => i = j

C33_SrvResolutionShallow ==
    /\ dns[2].task["srv"] = "off"
    /\ Cardinality({i \in 1..Len(Targets) : startswith_SRV(Targets[i][3])}) <= 1
    /\ \A i \in 1..Len(Targets) :
          startswith_SRV(Targets[i][3]) =>
              Targets[i][3] \in {<<"SRV-", "IPv4">>, <<"SRV-", "IPv6">>}

(***************************************************************************)
(* Properties of the receive framing of the TCP probes                     *)
(***************************************************************************)
\* C34 (as claimed): in the Legacy and Beta probes, a reply whose leading
\* byte is not 0xFF or whose content_len is less than 3 makes the probe
\* return UNKNOWN.
C34_LegacyBetaFraming ==
    [][\A t \in AllThreads : \A d \in LegacyFrames :
          (/\ ms[t].routine \in {LEGACY, BETA}
           /\ ms[t].phase = "recv"
           /\ d.lead # 255 \/ d.content_len < 3
           /\ ms'[t] = Resume(ms[t], Ev("ok", d))) =>
              /\ ms'[t].phase = "returned"
              /\ ms'[t].retval = UNKNOWN]_vars

\* C35: _recv_exact(sock, n) returns exactly the first n bytes the peer
\* sent, however the reads are chunked, and cannot fail as aborted when the
\* peer sent at least n bytes; a read of zero bytes before n bytes are
\* there fails with ConnectionAbortedError, and each TCP probe then
\* returns UNKNOWN.
C35_RecvExact ==
    /\ recvx.pc = "returned" =>
          recvx.data = SubSeq(recvx.stream, 1, recvx.size)
    /\ (recvx.pc = "raised" /\ recvx.raised = "aborted") =>
          /\ Len(recvx.stream) < recvx.size
          /\ recvx.status = UNKNOWN

\* C35 witness: three bytes were read in two chunks and returned while the
\* peer had sent four.
C35_Witness ==
    /\ recvx.pc = "returned"
    /\ recvx.reads = 2
    /\ recvx.size = 3
    /\ Len(recvx.stream) = 4
    /\ recvx.data = <<1, 2, 3>>

\* C36 (as claimed): the Bedrock probe tolerates missing trailing fields:
\* an Unconnected Pong whose id string is a leading prefix of the twelve
\* fields (the counts that are present being numeric) does not raise; the
\* probe returns SUCCESS.
C36_BedrockPrefixTolerated ==
    [][\A t \in AllThreads : \A d \in BedrockFrames :
          (/\ ms[t].routine = BEDROCK_RAKNET
           /\ ms[t].phase = "recv"
           /\ d.packet_id = 28 /\ ~d.truncated /\ d.magic
           /\ d.text.decodable
           /\ d.text.numeric
           /\ ms'[t] = Resume(ms[t], Ev("ok", d))) =>
              /\ ms'[t].phase = "returned"
              /\ ms'[t].retval = SUCCESS]_vars

\* C37 (as claimed): a JSON node that has an "extra" array still produces
\* its own colored span: for a node colored red the HTML opens with the red
\* span and closes with its </span>, the node's text and the rendering of
\* the children lying in between.
C37_ExtraInsideParentSpan ==
    (/\ render.pc = "done"
     /\ render.data.kind = "json"
     /\ render.data.value.kind = "dict"
     /\ HasKey(render.data.value, "extra")
     /\ HasKey(render.data.value, "color")
     /\ render.data.value.color = "red") =>
        LET html == render.html[1]
        IN  /\ Len(html) >= 2
            /\ html[1] = RedSpan
            /\ html[Len(html)] = "</span>"

C39_ReplyHasOneLocale ==
    reply.pc = "returned" =>
        \A i, j \in 1..Len(reply.messages) :
            reply.messages[i] = reply.messages[j]

====
